---- MODULE Spec2Model ----
(***************************************************************************)
(* A model of the Scenario / DRTScenario data model and KPI layer of       *)
(* TripPy (src/trippy/scenario.py, src/trippy/drtscenario.py).             *)
(*                                                                         *)
(* A DataFrame is a record [none, cols, index, rows]: cols is the set of   *)
(* column names, index the row labels, rows a sequence of functions from   *)
(* cols to cell values.  Python's None is the record [none |-> TRUE].      *)
(* Exceptions are named by their Python class; "None" means the call       *)
(* returned.  The specification's SchemaError is the ValueError of         *)
(* _check_specification_compliance, InvalidArgument the TypeError of       *)
(* add_data and the ValueError of split_type, MissingDataError the         *)
(* AssertionError of _require_table.                                       *)
(***************************************************************************)
EXTENDS Integers, Sequences, FiniteSets, TLC

VARIABLES
    _trips_df,        \* Scenario._trips_df
    _legs_df,         \* Scenario._legs_df
    _links_df,        \* Scenario._links_df
    _network_df,      \* Scenario._network_df
    _operating_zone,  \* Scenario._operating_zone
    _settings,        \* Scenario._settings
    _line_renamer,    \* Scenario._line_renamer
    _policy_scenarios, \* Comparison._policy_scenarios of the comparison based on the scenario
    ret,              \* the last call: its arguments, its exception, its result
    lastN             \* history: len(T) of the last add_data(trips_df=T) that returned, -1 if none

vars ==
    <<_trips_df, _legs_df, _links_df, _network_df, _operating_zone, _settings,
      _line_renamer, _policy_scenarios, ret, lastN>>

(***************************************************************************)
(* Bounds of the model.                                                    *)
(***************************************************************************)
MaxRows == 2

MaxTrips == 3

MaxLegs == 5

(***************************************************************************)
(* Python values.                                                          *)
(***************************************************************************)
None == [none |-> TRUE]

\* no Comparison has been constructed
NoComparison == <<>>

Digits == <<"0", "1", "2", "3", "4", "5", "6", "7", "8", "9">>

RECURSIVE str(_)
str(n) == IF n < 10 THEN Digits[n + 1] ELSE str(n \div 10) \o Digits[(n % 10) + 1]

RECURSIVE SumSeq(_)
SumSeq(s) == IF s = <<>> THEN 0 ELSE Head(s) + SumSeq(Tail(s))

\* the positions at which a boolean mask holds, in order
SelectIdx(mask) ==
    CHOOSE idx \in
        { [k \in 1..Cardinality(S) |-> CHOOSE i \in S : Cardinality({ j \in S : j <= i }) = k] :
            S \in {{ i \in DOMAIN mask : mask[i] }} } : TRUE

(***************************************************************************)
(* Floating point values are modelled by exact fractions <<num, den>> in   *)
(* lowest terms with den > 0; 0/0 is NaN and x/0 is inf.                   *)
(***************************************************************************)
RECURSIVE Gcd(_, _)
Gcd(a, b) == IF b = 0 THEN a ELSE Gcd(b, a % b)

Abs(x) == IF x < 0 THEN -x ELSE x

NaN == <<0, 0>>

Frac(num, den) ==
    IF den = 0 THEN (IF num = 0 THEN NaN ELSE IF num > 0 THEN <<1, 0>> ELSE <<-1, 0>>)
    ELSE LET g == Gcd(Abs(num), Abs(den))
             sgn == IF den < 0 THEN -1 ELSE 1
         IN <<sgn * (num \div g), sgn * (den \div g)>>

\* x / y
FracDiv(x, y) ==
    IF x[2] = 0 \/ y[2] = 0 THEN NaN ELSE Frac(x[1] * y[2], x[2] * y[1])

\* x + y
FracAdd(x, y) ==
    IF x[2] = 0 \/ y[2] = 0 THEN NaN ELSE Frac(x[1] * y[2] + y[1] * x[2], x[2] * y[2])

\* Series.sum() over the values f[k], k in the finite set S
RECURSIVE FracSum(_, _)
FracSum(f, S) ==
    IF S = {} THEN <<0, 1>>
    ELSE LET k == CHOOSE x \in S : TRUE IN FracAdd(f[k], FracSum(f, S \ {k}))

RECURSIVE IntSum(_, _)
IntSum(f, S) ==
    IF S = {} THEN 0
    ELSE LET k == CHOOSE x \in S : TRUE IN f[k] + IntSum(f, S \ {k})

(***************************************************************************)
(* DataFrames.                                                             *)
(***************************************************************************)
DataFrame(cols, index, rows) ==
    [none |-> FALSE, cols |-> cols, index |-> index, rows |-> rows]

RangeIndex(n) == [i \in 1..n |-> i - 1]

shape0(df) == Len(df.rows)

size(df) == Len(df.rows) * Cardinality(df.cols)

\* df[col] = vals : adds or overwrites a column
SetColumn(df, col, vals) ==
    [df EXCEPT !.cols = @ \cup {col},
               !.rows = [i \in DOMAIN df.rows |->
                            [c \in df.cols \cup {col} |->
                                IF c = col THEN vals[i] ELSE df.rows[i][c]]]]

\* df.drop(columns=col)
DropColumn(df, col) ==
    [df EXCEPT !.cols = @ \ {col},
               !.rows = [i \in DOMAIN df.rows |->
                            [c \in df.cols \ {col} |-> df.rows[i][c]]]]

\* df[mask] : the rows at which the mask holds, in order, with their index labels
FilterRows(df, mask) ==
    LET idx == SelectIdx(mask)
    IN [df EXCEPT !.index = [k \in DOMAIN idx |-> df.index[idx[k]]],
                  !.rows = [k \in DOMAIN idx |-> df.rows[idx[k]]]]

Column(df, col) == [i \in DOMAIN df.rows |-> df.rows[i][col]]

Project(row, cols) == [c \in cols |-> row[c]]

\* every table with the given columns and at most n rows drawn from Rows,
\* with the default RangeIndex
Tables(cols, Rows, n) ==
    { DataFrame(cols, RangeIndex(Len(rs)), [i \in DOMAIN rs |-> Project(rs[i], cols)]) :
        rs \in UNION { [1..k -> Rows] : k \in 0..n } }

(***************************************************************************)
(* Settings and table specification.                                       *)
(***************************************************************************)
\* the "vsys" ruleset of the default settings (the entries with ASCII labels)
vsys ==
    ("100" :> "Bus") @@ ("300" :> "Tram") @@ ("500" :> "S-Bahn") @@ ("600" :> "RV") @@
    ("700" :> "FV") @@ ("800" :> "FV") @@ ("BVB10" :> "Bus") @@ ("BVB10M" :> "Bus") @@
    ("BVT30" :> "Tram") @@ ("BVT30M" :> "Tram") @@ ("BVB10X" :> "Bus") @@
    ("BVU20" :> "U-Bahn") @@ ("bike" :> "Fahrrad") @@ ("car" :> "MIV") @@
    ("ride" :> "Mitfahren") @@ ("walk" :> "Laufen") @@ ("drt" :> "DRT")

DefaultSettings ==
    [default_time_agg_interval |-> 60,
     drt_mode |-> "drt",
     walk_mode |-> "walk",
     crs |-> "epsg:25833",
     mode_aggregation_rulesets |-> [vsys |-> vsys]]

\* tables_specification.json: the recognized column names of each table
_tables_specification ==
    [trips_df |-> {"trip_id", "person_id", "main_mode", "start_time", "end_time",
                   "travel_time", "waiting_time", "access_time", "egress_time",
                   "access_distance", "egress_distance", "routed_distance",
                   "beeline_distance", "from_x", "from_y", "to_x", "to_y",
                   "legs_count", "contains_drt", "all_modes"},
     legs_df |-> {"leg_id", "trip_id", "person_id", "mode", "leg_number", "line_id",
                  "start_time", "end_time", "travel_time", "waiting_time",
                  "routed_distance"},
     links_df |-> {"link_id", "vehicle_id", "person_id", "mode", "link_enter_time",
                   "link_leave_time", "distance_travelled"},
     network_df |-> {"link_id", "geometry"}]

\* Series.replace(ruleset): one lookup per value, values without a rule are kept
replace(x, ruleset) == IF x \in DOMAIN ruleset THEN ruleset[x] ELSE x

(***************************************************************************)
(* Geometry.  A coordinate reference system is modelled by the offset of   *)
(* its origin on a lattice; a polygon by the lattice points within it.     *)
(***************************************************************************)
CrsOffset(crs) == IF crs = "epsg:4326" THEN 0 ELSE 10

transform(p, from, to) ==
    <<p[1] - CrsOffset(from) + CrsOffset(to), p[2] - CrsOffset(from) + CrsOffset(to)>>

GeoDataFrame(crs, polygon) == [none |-> FALSE, crs |-> crs, geometry |-> polygon]

to_crs(gdf, crs) ==
    GeoDataFrame(crs, { transform(p, gdf.crs, crs) : p \in gdf.geometry })

(***************************************************************************)
(* The scenario object.                                                    *)
(***************************************************************************)
Self ==
    [_trips_df |-> _trips_df, _legs_df |-> _legs_df, _links_df |-> _links_df,
     _network_df |-> _network_df, _operating_zone |-> _operating_zone,
     _settings |-> _settings, _line_renamer |-> _line_renamer]

\* the exception _require_table raises, "None" when it returns
_require_table(self, df_name, cols) ==
    IF df_name \notin {"trips_df", "legs_df", "links_df"} THEN "ValueError"
    ELSE LET df == CASE df_name = "trips_df" -> self._trips_df
                     [] df_name = "legs_df" -> self._legs_df
                     [] OTHER -> self._links_df
         IN IF df.none THEN "AssertionError"
            ELSE IF \E c \in cols : c \notin df.cols THEN "AssertionError"
            ELSE "None"

\* the exception _check_specification_compliance raises, "None" when it returns True
_check_specification_compliance(df, table_name) ==
    LET cols_existing == _tables_specification[table_name] \cap df.cols
    IN IF Cardinality(cols_existing) = 0 \/ size(df) = 0 THEN "ValueError" ELSE "None"

\* mutant: "od" is assigned after "inland", so it overwrites it
add_operating_zone_to_trips_OdLast(self, trips_df) ==
    IF trips_df.none THEN [err |-> "AttributeError", df |-> None]
    ELSE
    LET d1 == IF "relation_type" \in trips_df.cols
              THEN DropColumn(trips_df, "relation_type") ELSE trips_df
        d2 == IF "starts_in_zone" \in d1.cols THEN DropColumn(d1, "starts_in_zone") ELSE d1
        d3 == IF "ends_in_zone" \in d2.cols THEN DropColumn(d2, "ends_in_zone") ELSE d2
        zone == self._operating_zone.geometry
        within(x, y) == transform(<<x, y>>, self._settings.crs, "epsg:4326") \in zone
        starts == [i \in DOMAIN d3.rows |-> within(d3.rows[i].from_x, d3.rows[i].from_y)]
        ends == [i \in DOMAIN d3.rows |-> within(d3.rows[i].to_x, d3.rows[i].to_y)]
        relation == [i \in DOMAIN d3.rows |->
                        IF starts[i] \/ ends[i] THEN "od"
                        ELSE IF starts[i] /\ ends[i] THEN "inland"
                        ELSE "outside"]
    IN IF ~({"from_x", "from_y", "to_x", "to_y"} \subseteq d3.cols)
       THEN [err |-> "KeyError", df |-> None]
       ELSE [err |-> "None",
             df |-> SetColumn(SetColumn(SetColumn(d3, "starts_in_zone", starts),
                                        "ends_in_zone", ends),
                              "relation_type", relation)]

\* [err, df]: the annotated copy of trips_df, or the exception raised
add_operating_zone_to_trips(self, trips_df) ==
    IF trips_df.none THEN [err |-> "AttributeError", df |-> None]
    ELSE
    LET d1 == IF "relation_type" \in trips_df.cols
              THEN DropColumn(trips_df, "relation_type") ELSE trips_df
        d2 == IF "starts_in_zone" \in d1.cols THEN DropColumn(d1, "starts_in_zone") ELSE d1
        d3 == IF "ends_in_zone" \in d2.cols THEN DropColumn(d2, "ends_in_zone") ELSE d2
        zone == self._operating_zone.geometry
        within(x, y) == transform(<<x, y>>, self._settings.crs, "epsg:4326") \in zone
        starts == [i \in DOMAIN d3.rows |-> within(d3.rows[i].from_x, d3.rows[i].from_y)]
        ends == [i \in DOMAIN d3.rows |-> within(d3.rows[i].to_x, d3.rows[i].to_y)]
        relation == [i \in DOMAIN d3.rows |->
                        IF starts[i] /\ ends[i] THEN "inland"
                        ELSE IF starts[i] \/ ends[i] THEN "od"
                        ELSE "outside"]
    IN IF ~({"from_x", "from_y", "to_x", "to_y"} \subseteq d3.cols)
       THEN [err |-> "KeyError", df |-> None]
       ELSE [err |-> "None",
             df |-> SetColumn(SetColumn(SetColumn(d3, "starts_in_zone", starts),
                                        "ends_in_zone", ends),
                              "relation_type", relation)]

\* groupby(key).cumcount() + 1
cumcount1(df, key) ==
    [i \in DOMAIN df.rows |->
        Cardinality({ j \in 1..i : df.rows[j][key] = df.rows[i][key] })]

index_astype_str(df) == [i \in DOMAIN df.rows |-> str(df.index[i])]

\* mutant: trip_id is synthesized from the index even when the table has the column
AddDataTrips_Resynthesize(self, value) ==
    IF _check_specification_compliance(value, "trips_df") # "None"
    THEN [self |-> self, value |-> value, err |-> "ValueError"]
    ELSE
    LET v1 == SetColumn(value, "trip_id", index_astype_str(value))
        s1 == [self EXCEPT !._trips_df = v1]
        z == add_operating_zone_to_trips(s1, v1)
    IN IF self._operating_zone.none THEN [self |-> s1, value |-> v1, err |-> "None"]
       ELSE IF z.err # "None" THEN [self |-> s1, value |-> v1, err |-> z.err]
       ELSE [self |-> [s1 EXCEPT !._trips_df = z.df], value |-> v1, err |-> "None"]

\* mutant: the table is stored and trip_id synthesized before it is validated
AddDataTrips_ValidateLast(self, value) ==
    LET v1 == IF "trip_id" \notin value.cols
              THEN SetColumn(value, "trip_id", index_astype_str(value)) ELSE value
        s1 == [self EXCEPT !._trips_df = v1]
        z == add_operating_zone_to_trips(s1, v1)
    IN IF _check_specification_compliance(value, "trips_df") # "None"
       THEN [self |-> s1, value |-> v1, err |-> "ValueError"]
       ELSE IF self._operating_zone.none THEN [self |-> s1, value |-> v1, err |-> "None"]
       ELSE IF z.err # "None" THEN [self |-> s1, value |-> v1, err |-> z.err]
       ELSE [self |-> [s1 EXCEPT !._trips_df = z.df], value |-> v1, err |-> "None"]

AddDataTrips(self, value) ==
    IF _check_specification_compliance(value, "trips_df") # "None"
    THEN [self |-> self, value |-> value, err |-> "ValueError"]
    ELSE
    LET v1 == IF "trip_id" \notin value.cols
              THEN SetColumn(value, "trip_id", index_astype_str(value)) ELSE value
        s1 == [self EXCEPT !._trips_df = v1]
        z == add_operating_zone_to_trips(s1, v1)
    IN IF self._operating_zone.none THEN [self |-> s1, value |-> v1, err |-> "None"]
       ELSE IF z.err # "None" THEN [self |-> s1, value |-> v1, err |-> z.err]
       ELSE [self |-> [s1 EXCEPT !._trips_df = z.df], value |-> v1, err |-> "None"]

AddDataZone(self, value) ==
    LET s1 == [self EXCEPT !._operating_zone = to_crs(value, "epsg:4326")]
        z == add_operating_zone_to_trips(s1, s1._trips_df)
    IN IF z.err # "None" THEN [self |-> s1, value |-> value, err |-> z.err]
       ELSE [self |-> [s1 EXCEPT !._trips_df = z.df], value |-> value, err |-> "None"]

AddDataLegs(self, value) ==
    IF _check_specification_compliance(value, "legs_df") # "None"
    THEN [self |-> self, value |-> value, err |-> "ValueError"]
    ELSE
    LET v1 == IF "leg_id" \notin value.cols
              THEN SetColumn(value, "leg_id", index_astype_str(value)) ELSE value
        s1 == [self EXCEPT !._legs_df = v1]
        v2 == SetColumn(v1, "leg_number", cumcount1(v1, "trip_id"))
    IN IF "leg_number" \in v1.cols THEN [self |-> s1, value |-> v1, err |-> "None"]
       ELSE IF "trip_id" \notin v1.cols THEN [self |-> s1, value |-> v1, err |-> "KeyError"]
       ELSE [self |-> [s1 EXCEPT !._legs_df = v2], value |-> v2, err |-> "None"]

AddDataLinks(self, value) ==
    IF _check_specification_compliance(value, "links_df") # "None"
    THEN [self |-> self, value |-> value, err |-> "ValueError"]
    ELSE
    LET v1 == IF "link_id" \notin value.cols
              THEN SetColumn(value, "link_id", index_astype_str(value)) ELSE value
    IN [self |-> [self EXCEPT !._links_df = v1], value |-> v1, err |-> "None"]

AddDataNetwork(self, value) ==
    IF _check_specification_compliance(value, "network_df") # "None"
    THEN [self |-> self, value |-> value, err |-> "ValueError"]
    ELSE [self |-> [self EXCEPT !._network_df = value], value |-> value, err |-> "None"]

\* add_data(key=value): [self, value, err], the scenario and the caller's object
\* after the call and the exception raised
add_data(self, key, value) ==
    IF value.none THEN [self |-> self, value |-> value, err |-> "None"]
    ELSE CASE key = "trips_df" -> AddDataTrips(self, value)
           [] key = "operating_zone" -> AddDataZone(self, value)
           [] key = "legs_df" -> AddDataLegs(self, value)
           [] key = "links_df" -> AddDataLinks(self, value)
           [] key = "network_df" -> AddDataNetwork(self, value)
           [] OTHER -> [self |-> self, value |-> value, err |-> "TypeError"]

get_n_trips(self) ==
    IF _require_table(self, "trips_df", {}) # "None"
    THEN [err |-> "AssertionError", val |-> 0]
    ELSE [err |-> "None", val |-> shape0(self._trips_df)]

(***************************************************************************)
(* KPI queries.  The result of a groupby is a set of rows (the order of    *)
(* the rows is not significant).  An optional ruleset name is None or      *)
(* [none |-> FALSE, name |-> ...].                                         *)
(***************************************************************************)
Ruleset(name) == [none |-> FALSE, name |-> name]

\* the mode column after the optional .replace(ruleset)
Remapped(self, mode, agg_modes_ruleset) ==
    IF agg_modes_ruleset.none THEN mode
    ELSE replace(mode, self._settings.mode_aggregation_rulesets[agg_modes_ruleset.name])

\* [err, val]: val the rows [mode, n] with n the person kilometres of the mode
get_person_km(self, exclude_modes, agg_modes_ruleset) ==
    IF _require_table(self, "legs_df", {"person_id", "routed_distance", "mode"}) # "None"
    THEN [err |-> "AssertionError", val |-> {}]
    ELSE
    LET legs == self._legs_df
        df == FilterRows(legs, [i \in DOMAIN legs.rows |->
                                    legs.rows[i].mode \notin exclude_modes])
        mode == [i \in DOMAIN df.rows |-> Remapped(self, df.rows[i].mode, agg_modes_ruleset)]
        dist == [i \in DOMAIN df.rows |-> df.rows[i].routed_distance]
        group(m) == { i \in DOMAIN df.rows : mode[i] = m }
    IN [err |-> "None",
        val |-> { [mode |-> m, n |-> FracDiv(<<IntSum(dist, group(m)), 1>>, <<1000, 1>>)] :
                    m \in { mode[i] : i \in DOMAIN df.rows } }]

\* .assign(share = n / n.sum()) on rows whose n are fractions
AssignShare(rows) ==
    LET ns == [r \in rows |-> r.n]
        total == FracSum(ns, rows)
    IN { [mode |-> r.mode, n |-> r.n, share |-> FracDiv(r.n, total)] : r \in rows }

\* mutant: the performance split does not pass exclude_modes on to get_person_km
ModalSplitPerformance_NoExclude(self, exclude_modes, agg_modes_ruleset) ==
    LET pkm == get_person_km(self, {}, agg_modes_ruleset)
    IN [err |-> pkm.err, val |-> AssignShare(pkm.val)]

ModalSplitPerformance(self, exclude_modes, agg_modes_ruleset) ==
    LET pkm == get_person_km(self, exclude_modes, agg_modes_ruleset)
    IN [err |-> pkm.err, val |-> AssignShare(pkm.val)]

\* mutant: the modes are excluded after the remapping, by their display label
ModalSplitVolume_ExcludeRemapped(self, exclude_modes, agg_modes_ruleset) ==
    IF _require_table(self, "trips_df", {"main_mode"}) # "None"
    THEN [err |-> "AssertionError", val |-> {}]
    ELSE
    LET trips == self._trips_df
        df == FilterRows(trips, [i \in DOMAIN trips.rows |->
                  Remapped(self, trips.rows[i].main_mode, agg_modes_ruleset)
                      \notin exclude_modes])
        mode == [i \in DOMAIN df.rows |->
                    Remapped(self, df.rows[i].main_mode, agg_modes_ruleset)]
        count(m) == Cardinality({ i \in DOMAIN df.rows : mode[i] = m })
    IN [err |-> "None",
        val |-> { [mode |-> m, n |-> count(m), share |-> Frac(count(m), Len(df.rows))] :
                    m \in { mode[i] : i \in DOMAIN df.rows } }]

ModalSplitVolume(self, exclude_modes, agg_modes_ruleset) ==
    IF _require_table(self, "trips_df", {"main_mode"}) # "None"
    THEN [err |-> "AssertionError", val |-> {}]
    ELSE
    LET trips == self._trips_df
        df == FilterRows(trips, [i \in DOMAIN trips.rows |->
                                    trips.rows[i].main_mode \notin exclude_modes])
        mode == [i \in DOMAIN df.rows |->
                    Remapped(self, df.rows[i].main_mode, agg_modes_ruleset)]
        count(m) == Cardinality({ i \in DOMAIN df.rows : mode[i] = m })
        n == [m \in { mode[i] : i \in DOMAIN df.rows } |-> count(m)]
        total == IntSum(n, DOMAIN n)
    IN [err |-> "None",
        val |-> { [mode |-> m, n |-> n[m], share |-> Frac(n[m], total)] : m \in DOMAIN n }]

\* [err, val]: val the rows [mode, n, share]
get_modal_split(self, split_type, exclude_modes, agg_modes_ruleset) ==
    CASE split_type = "volume" -> ModalSplitVolume(self, exclude_modes, agg_modes_ruleset)
      [] split_type = "performance" ->
            ModalSplitPerformance(self, exclude_modes, agg_modes_ruleset)
      [] OTHER -> [err |-> "ValueError", val |-> {}]

(***************************************************************************)
(* Time binning.  An optional integer is None or [none |-> FALSE, val].    *)
(***************************************************************************)
Some(n) == [none |-> FALSE, val |-> n]

\* mutant: the index wraps around after 24 hours
_add_time_indices_Wrap(self, df, time_interval, time_col) ==
    LET interval == IF time_interval.none
                    THEN self._settings.default_time_agg_interval ELSE time_interval.val
    IN SetColumn(df, "time_index",
                 [i \in DOMAIN df.rows |-> (df.rows[i][time_col] % 86400) \div (interval * 60)])

\* df.assign(time_index = df[time_col] // (time_interval * 60))
_add_time_indices(self, df, time_interval, time_col) ==
    LET interval == IF time_interval.none
                    THEN self._settings.default_time_agg_interval ELSE time_interval.val
    IN SetColumn(df, "time_index",
                 [i \in DOMAIN df.rows |-> df.rows[i][time_col] \div (interval * 60)])

set_setting(self, setting, value) == [self EXCEPT !._settings[setting] = value]

(***************************************************************************)
(* DRTScenario.get_drt_intermodal_analysis.  A missing cell (NaN) of a     *)
(* string column is the string NullCell.                                   *)
(***************************************************************************)
NullCell == "<NA>"

\* the trips the analysis is about: by contains_drt when the trips table has
\* the column, else the trips with a leg of the DRT mode
drt_trip_ids(self) ==
    IF "contains_drt" \in self._trips_df.cols
    THEN { self._trips_df.rows[i].trip_id :
             i \in { i \in DOMAIN self._trips_df.rows : self._trips_df.rows[i].contains_drt } }
    ELSE { self._legs_df.rows[i].trip_id :
             i \in { i \in DOMAIN self._legs_df.rows :
                       self._legs_df.rows[i].mode = self._settings.drt_mode } }

\* mutant: the walk legs of the DRT trips are kept
drt_legs_no_walk_WithWalk(self) ==
    { i \in DOMAIN self._legs_df.rows : self._legs_df.rows[i].trip_id \in drt_trip_ids(self) }

\* the rows of legs_df that make drt_legs_no_walk: the legs of the DRT trips
\* that are not walk legs
drt_legs_no_walk(self) ==
    { i \in DOMAIN self._legs_df.rows :
        /\ self._legs_df.rows[i].trip_id \in drt_trip_ids(self)
        /\ self._legs_df.rows[i].mode # self._settings.walk_mode }

\* mutant: the leg number the legs table stores is kept
leg_number_Stored(self, no_walk, i) == self._legs_df.rows[i].leg_number

\* no_walk.groupby("trip_id").cumcount() + 1, at row i of legs_df
leg_number(self, no_walk, i) ==
    Cardinality({ j \in no_walk :
                    j <= i /\ self._legs_df.rows[j].trip_id = self._legs_df.rows[i].trip_id })

\* no_walk.groupby("trip_id")["leg_number"].transform("max"), at row i
legs_count(self, no_walk, i) ==
    CHOOSE m \in { leg_number(self, no_walk, j) :
                     j \in { j \in no_walk :
                               self._legs_df.rows[j].trip_id = self._legs_df.rows[i].trip_id } } :
        \A j \in no_walk :
            self._legs_df.rows[j].trip_id = self._legs_df.rows[i].trip_id
                => leg_number(self, no_walk, j) <= m

\* mutant: duplicates are dropped by trip_id alone, which keeps the first DRT
\* leg of a trip
drt_numbers_FirstPerTrip(self, no_walk) ==
    { [trip_id |-> self._legs_df.rows[i].trip_id, drt_number |-> leg_number(self, no_walk, i)] :
        i \in { i \in no_walk :
                  /\ self._legs_df.rows[i].mode = self._settings.drt_mode
                  /\ \A j \in no_walk :
                        (/\ self._legs_df.rows[j].mode = self._settings.drt_mode
                         /\ self._legs_df.rows[j].trip_id = self._legs_df.rows[i].trip_id)
                            => i <= j } }

\* the rows [trip_id, drt_number] of the DRT legs, without duplicates
drt_numbers(self, no_walk) ==
    { [trip_id |-> self._legs_df.rows[i].trip_id, drt_number |-> leg_number(self, no_walk, i)] :
        i \in { i \in no_walk : self._legs_df.rows[i].mode = self._settings.drt_mode } }

\* mutant: a row is also kept when the leg is two positions from the DRT leg
IsAdjacent_Within2(row) ==
    \/ row.drt_number = 1 /\ row.legs_count = 1
    \/ Abs(row.leg_number - row.drt_number) \in {1, 2}

\* mutant: the DRT leg itself is kept whenever it is the first leg
IsAdjacent_FirstLeg(row) ==
    \/ row.drt_number = 1 /\ row.leg_number = 1
    \/ Abs(row.leg_number - row.drt_number) = 1

\* the condition under which a merged row is kept
IsAdjacent(row) ==
    \/ row.drt_number = 1 /\ row.legs_count = 1
    \/ Abs(row.leg_number - row.drt_number) = 1

order_of(row) ==
    IF row.leg_number = row.drt_number THEN "direct"
    ELSE IF row.leg_number < row.drt_number THEN "before"
    ELSE "after"

\* row i of legs_df as row of no_walk.merge(drt_numbers, "left", "trip_id")
\* with the DRT number n
merged_row(self, no_walk, i, n) ==
    [c \in self._legs_df.cols \cup {"leg_number", "legs_count", "drt_number"} |->
        IF c = "leg_number" THEN leg_number(self, no_walk, i)
        ELSE IF c = "legs_count" THEN legs_count(self, no_walk, i)
        ELSE IF c = "drt_number" THEN n
        ELSE self._legs_df.rows[i][c]]

\* the merged rows of row i of legs_df that the adjacency filter keeps, in the
\* order of the DRT numbers, with the column order (the row of a leg without DRT
\* number compares False and is dropped)
adjacent_rows_of(self, no_walk, nums, i) ==
    LET kept == SelectIdx([n \in DOMAIN self._legs_df.rows |->
                    /\ i \in no_walk
                    /\ [trip_id |-> self._legs_df.rows[i].trip_id, drt_number |-> n] \in nums
                    /\ \A row \in {merged_row(self, no_walk, i, n)} : IsAdjacent(row)])
    IN [k \in DOMAIN kept |->
          CHOOSE r \in { row @@ [order |-> order_of(row)] :
                           row \in {merged_row(self, no_walk, i, kept[k])} } : TRUE]

\* the rows of drt_adjacent_legs that come of the first n rows of legs_df
RECURSIVE concat_adjacent(_, _, _, _)
concat_adjacent(self, no_walk, nums, n) ==
    IF n = 0 THEN <<>>
    ELSE concat_adjacent(self, no_walk, nums, n - 1) \o adjacent_rows_of(self, no_walk, nums, n)

\* the rows of drt_adjacent_legs
drt_adjacent_legs(self) ==
    CHOOSE adj \in UNION {
        { concat_adjacent(self, no_walk, nums, Len(self._legs_df.rows)) :
            nums \in {drt_numbers(self, no_walk)} } :
        no_walk \in {drt_legs_no_walk(self)} } : TRUE

\* Series.replace(dict) / no renamer
renamed_line(self, line_id) ==
    IF self._line_renamer.none THEN line_id ELSE replace(line_id, self._line_renamer.dict)

\* .fillna("EMPTY").replace(drt_mode, "EMPTY")
to_sentinel(self, cell) ==
    IF cell = NullCell \/ cell = self._settings.drt_mode THEN "EMPTY" ELSE cell

\* .replace("EMPTY", None)
from_sentinel(cell) == IF cell = "EMPTY" THEN NullCell ELSE cell

\* the counts per (mode, line_id, order) of the rows adj of drt_adjacent_legs
drt_intermodal(self, adj, agg_modes_ruleset) ==
    { [mode |-> from_sentinel(k.mode), line_id |-> from_sentinel(k.line_id),
       order |-> from_sentinel(k.order),
       n |-> Cardinality({ i \in DOMAIN adj :
               /\ to_sentinel(self, Remapped(self, adj[i].mode, agg_modes_ruleset)) = k.mode
               /\ to_sentinel(self, renamed_line(self, adj[i].line_id)) = k.line_id
               /\ to_sentinel(self, adj[i].order) = k.order })] :
        k \in { [mode |-> to_sentinel(self, Remapped(self, adj[i].mode, agg_modes_ruleset)),
                 line_id |-> to_sentinel(self, renamed_line(self, adj[i].line_id)),
                 order |-> to_sentinel(self, adj[i].order)] : i \in DOMAIN adj } }

\* [err, drt_adjacent_legs, val]: the adjacent legs with their order, and the rows
\* [mode, line_id, order, n] of the result
get_drt_intermodal_analysis(self, agg_modes_ruleset) ==
    IF \/ _require_table(self, "trips_df", {"trip_id", "legs_count"}) # "None"
       \/ _require_table(self, "legs_df", {"mode", "line_id"}) # "None"
    THEN [err |-> "AssertionError", drt_adjacent_legs |-> <<>>, val |-> {}]
    ELSE CHOOSE r \in
            { [err |-> "None", drt_adjacent_legs |-> adj,
               val |-> drt_intermodal(self, adj, agg_modes_ruleset)] :
                adj \in {drt_adjacent_legs(self)} } : TRUE

(***************************************************************************)
(* DRTScenario.get_n_drt_rides.  A Python str is a TLA+ string; chars      *)
(* gives its characters.                                                   *)
(***************************************************************************)
chars ==
    ("drt" :> <<"d", "r", "t">>) @@ ("d.t" :> <<"d", ".", "t">>) @@
    ("car" :> <<"c", "a", "r">>) @@ ("dxt" :> <<"d", "x", "t">>) @@
    ("a-drt" :> <<"a", "-", "d", "r", "t">>)

\* re.search(pat, s) for a pattern of literal characters and the wildcard "."
re_search(pat, s) ==
    \E k \in 0..(Len(chars[s]) - Len(chars[pat])) :
        \A j \in 1..Len(chars[pat]) :
            chars[pat][j] = "." \/ chars[pat][j] = chars[s][k + j]

\* [err, val]: the number of trips containing drt; Series.str.contains takes
\* the DRT mode label as a regular expression
get_n_drt_rides(self) ==
    IF _require_table(self, "trips_df", {}) # "None" THEN [err |-> "AssertionError", val |-> 0]
    ELSE IF "contains_drt" \in self._trips_df.cols
    THEN [err |-> "None",
          val |-> Cardinality({ i \in DOMAIN self._trips_df.rows :
                                  self._trips_df.rows[i].contains_drt })]
    ELSE IF "all_modes" \in self._trips_df.cols
    THEN [err |-> "None",
          val |-> Cardinality({ i \in DOMAIN self._trips_df.rows :
                                  re_search(self._settings.drt_mode,
                                            self._trips_df.rows[i].all_modes) })]
    ELSE IF _require_table(self, "trips_df", {"main_mode"}) # "None"
    THEN [err |-> "AssertionError", val |-> 0]
    ELSE [err |-> "None",
          val |-> Cardinality({ i \in DOMAIN self._trips_df.rows :
                                  self._trips_df.rows[i].main_mode = self._settings.drt_mode })]

\* mutant: no drop_duplicates, every link row contributes its distance
get_vehicle_km_NoDedup(self, exclude_modes, agg_modes_ruleset) ==
    IF _require_table(self, "links_df", {"vehicle_id", "mode"}) # "None"
    THEN [err |-> "AssertionError", val |-> {}]
    ELSE IF ~({"link_id", "link_enter_time", "distance_travelled"} \subseteq self._links_df.cols)
    THEN [err |-> "KeyError", val |-> {}]
    ELSE
    LET links == self._links_df
        kept == { i \in DOMAIN links.rows : links.rows[i].mode \notin exclude_modes }
        mode == [i \in DOMAIN links.rows |-> Remapped(self, links.rows[i].mode, agg_modes_ruleset)]
        dist == [i \in DOMAIN links.rows |-> links.rows[i].distance_travelled]
    IN [err |-> "None",
        val |-> { [mode |-> m,
                   n |-> FracDiv(<<IntSum(dist, { i \in kept : mode[i] = m }), 1>>, <<1000, 1>>)] :
                    m \in { mode[i] : i \in kept } }]

(***************************************************************************)
(* Scenario.get_vehicle_km and DRTScenario.get_pooling_share.              *)
(***************************************************************************)
\* [err, val]: val the rows [mode, n] with n the vehicle kilometres of the mode
get_vehicle_km(self, exclude_modes, agg_modes_ruleset) ==
    IF _require_table(self, "links_df", {"vehicle_id", "mode"}) # "None"
    THEN [err |-> "AssertionError", val |-> {}]
    ELSE IF ~({"link_id", "link_enter_time", "distance_travelled"} \subseteq self._links_df.cols)
    THEN [err |-> "KeyError", val |-> {}]
    ELSE
    LET links == self._links_df
        kept == { i \in DOMAIN links.rows : links.rows[i].mode \notin exclude_modes }
        key(i) == <<links.rows[i].vehicle_id, links.rows[i].link_id, links.rows[i].link_enter_time>>
        \* drop_duplicates keeps the first row of each key
        first == { i \in kept : \A j \in kept : j < i => key(j) # key(i) }
        mode == [i \in DOMAIN links.rows |-> Remapped(self, links.rows[i].mode, agg_modes_ruleset)]
        dist == [i \in DOMAIN links.rows |-> links.rows[i].distance_travelled]
    IN [err |-> "None",
        val |-> { [mode |-> m,
                   n |-> FracDiv(<<IntSum(dist, { i \in first : mode[i] = m }), 1>>, <<1000, 1>>)] :
                    m \in { mode[i] : i \in first } }]

\* [err, val]: val the person kilometres of the DRT mode per vehicle kilometre
get_pooling_share(self) ==
    LET split == get_modal_split(self, "performance", {}, None)
        person == { r \in split.val : r.mode = self._settings.drt_mode }
        veh == get_vehicle_km(self, {}, None)
        vehicle == { r \in veh.val : r.mode = self._settings.drt_mode }
    IN IF split.err # "None" THEN [err |-> split.err, val |-> NaN]
       ELSE IF person = {} THEN [err |-> "ValueError", val |-> NaN]
       ELSE IF veh.err # "None" THEN [err |-> veh.err, val |-> NaN]
       ELSE IF vehicle = {} THEN [err |-> "ValueError", val |-> NaN]
       ELSE [err |-> "None",
             val |-> FracDiv((CHOOSE r \in person : TRUE).n, (CHOOSE r \in vehicle : TRUE).n)]

(***************************************************************************)
(* Comparison.  The base scenario is the scenario of the variables; the    *)
(* dict _policy_scenarios is the sequence of its items [code, sc] in       *)
(* insertion order.  An optional code is None or Some(code).               *)
(***************************************************************************)
\* {sc.code: sc for sc in policy_scenarios}: a code keeps the position of its
\* first scenario and the value of its last
Comparison_policy_scenarios(policy_scenarios) ==
    LET firsts == SelectIdx([i \in DOMAIN policy_scenarios |->
                      \A j \in 1..(i - 1) : policy_scenarios[j].code # policy_scenarios[i].code])
        last(c) == CHOOSE i \in DOMAIN policy_scenarios :
                      /\ policy_scenarios[i].code = c
                      /\ \A j \in DOMAIN policy_scenarios :
                            policy_scenarios[j].code = c => j <= i
    IN [k \in DOMAIN firsts |->
          [code |-> policy_scenarios[firsts[k]].code,
           sc |-> policy_scenarios[last(policy_scenarios[firsts[k]].code)]]]

\* mutant: the suffixes are swapped, the base mode is read from the policy trips
modal_shift_Swapped(base, policy, ruleset) ==
    LET pairs == { <<i, j>> \in (DOMAIN policy._trips_df.rows) \X (DOMAIN base._trips_df.rows) :
                     /\ policy._trips_df.rows[i].trip_id = base._trips_df.rows[j].trip_id
                     /\ policy._trips_df.rows[i].person_id = base._trips_df.rows[j].person_id }
        key(p) == [main_mode_base |-> replace(policy._trips_df.rows[p[1]].main_mode, ruleset),
                   main_mode_policy |-> replace(base._trips_df.rows[p[2]].main_mode, ruleset)]
    IN { k @@ [n |-> Cardinality({ p \in pairs : key(p) = k })] : k \in { key(p) : p \in pairs } }

\* the counts per (main_mode_base, main_mode_policy) of the policy trips
\* merged with the base trips on trip_id and person_id; a policy trip without
\* base trip has no main_mode_base and is in no group
modal_shift(base, policy, ruleset) ==
    LET pairs == { <<i, j>> \in (DOMAIN policy._trips_df.rows) \X (DOMAIN base._trips_df.rows) :
                     /\ policy._trips_df.rows[i].trip_id = base._trips_df.rows[j].trip_id
                     /\ policy._trips_df.rows[i].person_id = base._trips_df.rows[j].person_id }
        key(p) == [main_mode_base |-> replace(base._trips_df.rows[p[2]].main_mode, ruleset),
                   main_mode_policy |-> replace(policy._trips_df.rows[p[1]].main_mode, ruleset)]
    IN { k @@ [n |-> Cardinality({ p \in pairs : key(p) = k })] : k \in { key(p) : p \in pairs } }

\* [err, policy, val]: policy the code of the policy scenario used, val the
\* rows [main_mode_base, main_mode_policy, n]
get_modal_shift(base, policy_scenarios, policy_scenario_code, agg_modes_ruleset) ==
    IF /\ ~policy_scenario_code.none
       /\ \A k \in DOMAIN policy_scenarios : policy_scenarios[k].code # policy_scenario_code.val
    THEN \* the dict lookup raises KeyError, which `except IndexError` does not catch
         [err |-> "KeyError", policy |-> "", val |-> {}]
    ELSE
    LET policy_scenario ==
            IF policy_scenario_code.none THEN policy_scenarios[1].sc
            ELSE policy_scenarios[CHOOSE k \in DOMAIN policy_scenarios :
                                    policy_scenarios[k].code = policy_scenario_code.val].sc
        cols == {"trip_id", "person_id", "main_mode"}
    IN IF \/ _require_table(policy_scenario, "trips_df", cols) # "None"
          \/ _require_table(base, "trips_df", cols) # "None"
       THEN [err |-> "AssertionError", policy |-> policy_scenario.code, val |-> {}]
       ELSE [err |-> "None", policy |-> policy_scenario.code,
             val |-> modal_shift(base, policy_scenario,
                        IF agg_modes_ruleset.none THEN <<>>
                        ELSE base._settings.mode_aggregation_rulesets[agg_modes_ruleset.name])]

(***************************************************************************)
(* Scenario.get_modal_split_day.                                           *)
(***************************************************************************)
\* the volume branch: [err, val], val the rows [mode, time_index, n]
ModalSplitDayVolume(self, time_interval, time_col, exclude_modes, agg_modes_ruleset) ==
    IF _require_table(self, "trips_df", {"main_mode"}) # "None"
    THEN [err |-> "AssertionError", val |-> {}]
    ELSE IF time_col \notin self._trips_df.cols THEN [err |-> "KeyError", val |-> {}]
    ELSE
    LET trips == self._trips_df
        df == _add_time_indices(self,
                 FilterRows(trips, [i \in DOMAIN trips.rows |->
                                       trips.rows[i].main_mode \notin exclude_modes]),
                 time_interval, time_col)
        key(i) == [mode |-> Remapped(self, df.rows[i].main_mode, agg_modes_ruleset),
                   time_index |-> df.rows[i].time_index]
    IN [err |-> "None",
        val |-> { k @@ [n |-> Cardinality({ i \in DOMAIN df.rows : key(i) = k })] :
                    k \in { key(i) : i \in DOMAIN df.rows } }]

\* mutant: any split_type is taken as 'volume'
get_modal_split_day_AnyType(self, split_type, time_interval, time_col, exclude_modes, agg_modes_ruleset) ==
    ModalSplitDayVolume(self, time_interval, time_col, exclude_modes, agg_modes_ruleset)

get_modal_split_day(self, split_type, time_interval, time_col, exclude_modes, agg_modes_ruleset) ==
    IF split_type = "volume"
    THEN ModalSplitDayVolume(self, time_interval, time_col, exclude_modes, agg_modes_ruleset)
    ELSE [err |-> "ValueError", val |-> {}]

(***************************************************************************)
(* DRTScenario.get_drt_occupancy_day.                                      *)
(***************************************************************************)
\* mutant: the links of every mode are counted
get_drt_occupancy_day_AllModes(self, time_interval) ==
    IF self._links_df.none THEN [err |-> "TypeError", val |-> {}]
    ELSE IF ~({"mode", "link_enter_time", "vehicle_id", "person_id"} \subseteq self._links_df.cols)
    THEN [err |-> "KeyError", val |-> {}]
    ELSE
    LET links == self._links_df
        drt == DOMAIN links.rows
        time_index(i) == links.rows[i].link_enter_time \div time_interval
        bins == { <<time_index(i), links.rows[i].vehicle_id>> : i \in drt }
        occupancy(b) ==
            Cardinality({ links.rows[i].person_id :
                            i \in { i \in drt : <<time_index(i), links.rows[i].vehicle_id>> = b } }) - 1
        key(b) == [time_index |-> b[1], occupancy |-> occupancy(b)]
    IN [err |-> "None",
        val |-> { k @@ [n |-> Cardinality({ b \in bins : key(b) = k })] :
                    k \in { key(b) : b \in bins } }]

\* [err, val]: val the rows [time_index, occupancy, n]; the method reads
\* self._links_df without _require_table
get_drt_occupancy_day(self, time_interval) ==
    IF self._links_df.none THEN [err |-> "TypeError", val |-> {}]
    ELSE IF ~({"mode", "link_enter_time", "vehicle_id", "person_id"} \subseteq self._links_df.cols)
    THEN [err |-> "KeyError", val |-> {}]
    ELSE
    LET links == self._links_df
        drt == { i \in DOMAIN links.rows : links.rows[i].mode = self._settings.drt_mode }
        time_index(i) == links.rows[i].link_enter_time \div time_interval
        \* groupby(["time_index", "vehicle_id"])["person_id"].nunique() - 1
        bins == { <<time_index(i), links.rows[i].vehicle_id>> : i \in drt }
        occupancy(b) ==
            Cardinality({ links.rows[i].person_id :
                            i \in { i \in drt : <<time_index(i), links.rows[i].vehicle_id>> = b } }) - 1
        key(b) == [time_index |-> b[1], occupancy |-> occupancy(b)]
    IN [err |-> "None",
        val |-> { k @@ [n |-> Cardinality({ b \in bins : key(b) = k })] :
                    k \in { key(b) : b \in bins } }]


(***************************************************************************)
(* Descriptive statistics.  A statistic is a fraction; the standard        *)
(* deviation is represented by its square.                                 *)
(***************************************************************************)
\* the k-th smallest of the values vals
sorted(vals, k) ==
    CHOOSE v \in { vals[i] : i \in DOMAIN vals } :
        /\ Cardinality({ i \in DOMAIN vals : vals[i] < v }) < k
        /\ k <= Cardinality({ i \in DOMAIN vals : vals[i] <= v })

mean(vals) == Frac(SumSeq(vals), Len(vals))

\* mutant: the middle value in row order
median_Unsorted(vals) ==
    IF Len(vals) = 0 THEN NaN
    ELSE IF Len(vals) % 2 = 1 THEN <<vals[(Len(vals) + 1) \div 2], 1>>
    ELSE Frac(vals[Len(vals) \div 2] + vals[Len(vals) \div 2 + 1], 2)

median(vals) ==
    IF Len(vals) = 0 THEN NaN
    ELSE IF Len(vals) % 2 = 1 THEN <<sorted(vals, (Len(vals) + 1) \div 2), 1>>
    ELSE Frac(sorted(vals, Len(vals) \div 2) + sorted(vals, Len(vals) \div 2 + 1), 2)

\* np.percentile(x, q): linear interpolation at position (n - 1) * q / 100
percentile(vals, q) ==
    LET pos == (Len(vals) - 1) * q
        k == pos \div 100
        rem == pos % 100
    IN IF rem = 0 THEN <<sorted(vals, k + 1), 1>>
       ELSE Frac(100 * sorted(vals, k + 1) + rem * (sorted(vals, k + 2) - sorted(vals, k + 1)),
                 100)

\* the square of Series.std() (ddof = 1): NaN for a single value
std(vals) ==
    LET n == Len(vals)
    IN Frac(n * SumSeq([i \in DOMAIN vals |-> vals[i] * vals[i]]) - SumSeq(vals) * SumSeq(vals),
            n * (n - 1))

\* the seven statistics of the values vals
describe(vals) ==
    [mean |-> mean(vals), median |-> median(vals), min |-> <<sorted(vals, 1), 1>>,
     max |-> <<sorted(vals, Len(vals)), 1>>, p_5 |-> percentile(vals, 5),
     p_95 |-> percentile(vals, 95), std |-> std(vals)]

\* df.groupby(by): the groups [key, rows] with the rows in table order
groupby(df, by) ==
    [groups |->
        { CHOOSE g \in { [key |-> (by :> k), rows |-> [n \in DOMAIN idx |-> df.rows[idx[n]]]] :
                           idx \in {SelectIdx([i \in DOMAIN df.rows |-> df.rows[i][by] = k])} } :
                 TRUE :
            k \in { df.rows[i][by] : i \in DOMAIN df.rows } }]

\* df.agg(mean=..., median=..., min=..., max=..., p_5=..., p_95=..., std=...)
\* .reset_index(): of a groupby, one row per group with the key and the
\* statistics as columns; of a DataFrame, one row per statistic
calc_descriptive_statistics(df, value_col) ==
    IF "groups" \in DOMAIN df
    THEN { CHOOSE r \in { g.key @@ describe(vals) :
                            vals \in {[i \in DOMAIN g.rows |-> g.rows[i][value_col]]} } : TRUE :
             g \in df.groups }
    ELSE { CHOOSE r \in { ("index" :> name) @@ (value_col :> d[name]) : name \in {stat} } : TRUE :
             stat \in DOMAIN describe(Column(df, value_col)),
             d \in {describe(Column(df, value_col))} }

\* __travel_distance_stats_trips / __travel_distance_stats_legs on the table
\* df_name with the mode column mode_col: [err, val]
travel_distance_stats(self, df_name, mode_col, distinguish_modes, agg_modes_ruleset, distance_col) ==
    IF _require_table(self, df_name, {distance_col}) # "None"
    THEN [err |-> "AssertionError", val |-> {}]
    ELSE IF ~agg_modes_ruleset.none /\ mode_col \notin self["_" \o df_name].cols
    THEN [err |-> "KeyError", val |-> {}]
    ELSE IF distinguish_modes /\ _require_table(self, df_name, {distance_col, mode_col}) # "None"
    THEN [err |-> "AssertionError", val |-> {}]
    ELSE
    [err |-> "None",
     val |-> CHOOSE out \in
               { IF distinguish_modes
                 THEN calc_descriptive_statistics(groupby(df_tdist, mode_col), distance_col)
                 ELSE calc_descriptive_statistics(df_tdist, distance_col) :
                   df_tdist \in
                     { IF agg_modes_ruleset.none THEN self["_" \o df_name]
                       ELSE SetColumn(self["_" \o df_name], mode_col,
                                [i \in DOMAIN self["_" \o df_name].rows |->
                                    Remapped(self, self["_" \o df_name].rows[i][mode_col],
                                             agg_modes_ruleset)]) } } : TRUE]

\* [err, val]
get_travel_distance_stats(self, stats_for, distinguish_modes, agg_modes_ruleset, distance_col) ==
    IF stats_for = "trips"
    THEN travel_distance_stats(self, "trips_df", "main_mode", distinguish_modes,
                               agg_modes_ruleset, distance_col)
    ELSE IF stats_for = "legs"
    THEN travel_distance_stats(self, "legs_df", "mode", distinguish_modes,
                               agg_modes_ruleset, distance_col)
    ELSE [err |-> "ValueError", val |-> {}]

(***************************************************************************)
(* DRTScenario.get_eta_day.                                                *)
(***************************************************************************)
\* [err, val]: val the statistics rows per time_index of the waiting_time of
\* the legs whose mode is "drt"
get_eta_day(self, time_interval) ==
    IF _require_table(self, "legs_df", {}) # "None"
    THEN [err |-> "AssertionError", val |-> {}]
    ELSE IF ~({"mode", "start_time", "trip_id", "leg_id"} \subseteq self._legs_df.cols)
    THEN [err |-> "KeyError", val |-> {}]
    ELSE IF "waiting_time" \notin self._legs_df.cols
    THEN [err |-> "None", val |-> {}]
    ELSE
    [err |-> "None",
     val |-> CHOOSE out \in
        { calc_descriptive_statistics(
              groupby([rows |-> [n \in DOMAIN idx |->
                                   [trip_id |-> df.rows[idx[n]].trip_id,
                                    leg_id |-> df.rows[idx[n]].leg_id,
                                    time_index |-> df.rows[idx[n]].time_index,
                                    travel_part |-> "waiting_time",
                                    minutes |-> df.rows[idx[n]].waiting_time]]],
                      "time_index"),
              "minutes") :
            idx \in {SelectIdx([i \in DOMAIN self._legs_df.rows |->
                                  self._legs_df.rows[i].mode = "drt"])},
            df \in {_add_time_indices(self, self._legs_df, time_interval, "start_time")} } : TRUE]

(***************************************************************************)
(* DataFrame objects.  The attributes of a scenario refer to DataFrame     *)
(* objects; copy() and indexing make a new object, and df[col] = vals      *)
(* changes the object df refers to.  objs gives the content of every       *)
(* object, and [objs, at] is the reference `at` to one of them.            *)
(***************************************************************************)
Objects(self) ==
    [trips_df |-> self._trips_df, legs_df |-> self._legs_df, links_df |-> self._links_df]

\* mutant: no new object, the reference is to the table itself
copy_SameObject(objs, id) == [objs |-> objs, at |-> id]

\* DataFrame.copy()
copy(objs, id) == [objs |-> ("copy" :> objs[id]) @@ objs, at |-> "copy"]

\* df[mask] and df.loc[mask]
getitem(ref, mask) ==
    [objs |-> ("selection" :> FilterRows(ref.objs[ref.at], mask)) @@ ref.objs,
     at |-> "selection"]

\* df[col] = vals
setitem(ref, col, vals) ==
    [objs |-> [ref.objs EXCEPT ![ref.at] = SetColumn(@, col, vals)], at |-> ref.at]

\* if agg_modes_ruleset is not None: df[mode_col] = df[mode_col].replace(ruleset)
replace_modes(self, ref, mode_col, agg_modes_ruleset) ==
    IF agg_modes_ruleset.none \/ mode_col \notin ref.objs[ref.at].cols THEN ref
    ELSE setitem(ref, mode_col,
                 [i \in DOMAIN ref.objs[ref.at].rows |->
                     Remapped(self, ref.objs[ref.at].rows[i][mode_col], agg_modes_ruleset)])

\* the objects after df = self._<df_name>.copy()[~self._<df_name>[mode_col]
\* .isin(exclude_modes)] and the remapping of df[mode_col], as in
\* get_modal_split, get_modal_split_day, get_person_km, get_vehicle_km and
\* get_n_vehicles_day
filtered_copy(self, df_name, mode_col, cols, exclude_modes, agg_modes_ruleset) ==
    IF _require_table(self, df_name, cols) # "None" THEN Objects(self)
    ELSE replace_modes(self,
             getitem(copy(Objects(self), df_name),
                     [i \in DOMAIN self["_" \o df_name].rows |->
                         self["_" \o df_name].rows[i][mode_col] \notin exclude_modes]),
             mode_col, agg_modes_ruleset).objs

\* the objects after df = self._<df_name>.copy() and the remapping of
\* df[mode_col], as in get_travel_time_stats, get_travel_distance_stats and
\* get_access_egress_distances
remapped_copy(self, df_name, mode_col, cols, agg_modes_ruleset) ==
    IF _require_table(self, df_name, cols) # "None" THEN Objects(self)
    ELSE replace_modes(self, copy(Objects(self), df_name), mode_col, agg_modes_ruleset).objs

\* the objects after drt_legs_no_walk = self._legs_df.loc[...].copy() and the
\* assignments of its columns leg_number and legs_count
drt_legs_no_walk_copy(self) ==
    IF \/ _require_table(self, "trips_df", {"trip_id", "legs_count"}) # "None"
       \/ _require_table(self, "legs_df", {"mode", "line_id"}) # "None"
       \/ "trip_id" \notin self._legs_df.cols
    THEN Objects(self)
    ELSE
    LET no_walk == drt_legs_no_walk(self)
        idx == SelectIdx([i \in DOMAIN self._legs_df.rows |-> i \in no_walk])
        sel == getitem([objs |-> Objects(self), at |-> "legs_df"],
                       [i \in DOMAIN self._legs_df.rows |-> i \in no_walk])
        ref == copy(sel.objs, sel.at)
    IN setitem(setitem(ref, "leg_number",
                       [n \in DOMAIN idx |-> leg_number(self, no_walk, idx[n])]),
               "legs_count",
               [n \in DOMAIN idx |-> legs_count(self, no_walk, idx[n])]).objs

\* the objects after policy_scenario._trips_df[[...]].merge(
\* self._base_scenario._trips_df[[...]], ...).replace(...): the selections and
\* the merged table are new objects
modal_shift_selection(self) ==
    IF _require_table(self, "trips_df", {"trip_id", "person_id", "main_mode"}) # "None"
    THEN Objects(self)
    ELSE getitem([objs |-> Objects(self), at |-> "trips_df"],
                 [i \in DOMAIN self._trips_df.rows |-> TRUE]).objs

(***************************************************************************)
(* Scenario.get_n_vehicles_day, get_travel_time_stats and                  *)
(* get_access_egress_distances.                                            *)
(***************************************************************************)
\* [err, val]: val the rows [mode, time_index, n] with n the number of
\* distinct vehicles of the mode entering a link in the time bin
get_n_vehicles_day(self, time_interval, exclude_modes, agg_modes_ruleset) ==
    IF _require_table(self, "links_df", {"vehicle_id", "mode"}) # "None"
    THEN [err |-> "AssertionError", val |-> {}]
    ELSE IF "link_enter_time" \notin self._links_df.cols THEN [err |-> "KeyError", val |-> {}]
    ELSE
    LET links == self._links_df
        df == _add_time_indices(self,
                 FilterRows(links, [i \in DOMAIN links.rows |->
                                       links.rows[i].mode \notin exclude_modes]),
                 Some(time_interval), "link_enter_time")
        key(i) == [mode |-> Remapped(self, df.rows[i].mode, agg_modes_ruleset),
                   time_index |-> df.rows[i].time_index]
    IN [err |-> "None",
        val |-> { k @@ [n |-> Cardinality({ df.rows[i].vehicle_id :
                                              i \in { i \in DOMAIN df.rows : key(i) = k } })] :
                    k \in { key(i) : i \in DOMAIN df.rows } }]

\* "time" in name, for the column names of the tables
contains_time(name) ==
    name \in {"start_time", "end_time", "travel_time", "waiting_time", "access_time",
              "egress_time", "link_enter_time", "link_leave_time"}

\* the travel parts: the columns of the table specification with "time" in
\* the name other than start_time and end_time
time_cols(table_name) ==
    { col \in _tables_specification[table_name] :
        contains_time(col) /\ col \notin {"start_time", "end_time"} }

\* df.melt(id_vars=[mode_col], value_vars, var_name, value_name)
\* .groupby([var_name, mode_col]), or .groupby(var_name) when the modes are
\* not distinguished: the groups with their rows in the order of df; the
\* value of a row is the cell divided by `per`, which the cells are whole
\* multiples of
melt_groupby(self, df, mode_col, distinguish_modes, agg_modes_ruleset, value_vars, var_name, value_name, per) ==
    [groups |->
        { [key |-> IF distinguish_modes THEN (var_name :> k[1]) @@ (mode_col :> k[2])
                   ELSE (var_name :> k[1]),
           rows |-> [n \in DOMAIN k[3] |-> (value_name :> (df.rows[k[3][n]][k[1]] \div per))]] :
            k \in { k \in { <<col, m,
                              SelectIdx([i \in DOMAIN df.rows |->
                                           distinguish_modes =>
                                              Remapped(self, df.rows[i][mode_col],
                                                       agg_modes_ruleset) = m])>> :
                              col \in value_vars,
                              m \in IF distinguish_modes
                                    THEN { Remapped(self, df.rows[i][mode_col],
                                                    agg_modes_ruleset) : i \in DOMAIN df.rows }
                                    ELSE {"<all>"} } :
                      k[3] # <<>> } }]

\* __travel_time_stats_trips / __travel_time_stats_legs on the table df_name
\* with the id column id_col and the mode column mode_col: [err, val]
travel_time_stats(self, df_name, id_col, mode_col, distinguish_modes, agg_modes_ruleset) ==
    IF _require_table(self, df_name, {id_col, "travel_time"}) # "None"
    THEN [err |-> "AssertionError", val |-> {}]
    ELSE IF ~agg_modes_ruleset.none /\ mode_col \notin self["_" \o df_name].cols
    THEN [err |-> "KeyError", val |-> {}]
    ELSE IF distinguish_modes
            /\ _require_table(self, df_name, {id_col, "travel_time", mode_col}) # "None"
    THEN [err |-> "AssertionError", val |-> {}]
    ELSE IF ~(time_cols(df_name) \subseteq self["_" \o df_name].cols)
    THEN [err |-> "KeyError", val |-> {}]
    ELSE [err |-> "None",
          val |-> calc_descriptive_statistics(
                      melt_groupby(self, self["_" \o df_name], mode_col, distinguish_modes,
                                   agg_modes_ruleset, time_cols(df_name), "travel_part",
                                   "minutes", 60),
                      "minutes")]

\* [err, val]
get_travel_time_stats(self, stats_for, distinguish_modes, agg_modes_ruleset) ==
    IF stats_for = "trips"
    THEN travel_time_stats(self, "trips_df", "trip_id", "main_mode", distinguish_modes,
                           agg_modes_ruleset)
    ELSE IF stats_for = "legs"
    THEN travel_time_stats(self, "legs_df", "leg_id", "mode", distinguish_modes,
                           agg_modes_ruleset)
    ELSE [err |-> "ValueError", val |-> {}]

\* DataFrame.fillna(0) of a row of statistics
fillna0(row) ==
    [c \in DOMAIN row |->
        IF c \in DOMAIN describe(<<0>>) /\ row[c] = NaN THEN <<0, 1>> ELSE row[c]]

\* [err, val]: val the statistics rows per (main_mode, kind) of the access
\* and egress distances
get_access_egress_distances(self, agg_modes_ruleset) ==
    IF _require_table(self, "trips_df", {"main_mode", "access_distance", "egress_distance"})
          # "None"
    THEN [err |-> "AssertionError", val |-> {}]
    ELSE [err |-> "None",
          val |-> { fillna0([r EXCEPT !.kind = replace(@, [access_distance |-> "access",
                                                            egress_distance |-> "egress"]),
                                      !.main_mode = replace(@, [access_distance |-> "access",
                                                                 egress_distance |-> "egress"])]) :
                      r \in calc_descriptive_statistics(
                               melt_groupby(self, self._trips_df, "main_mode", TRUE,
                                            agg_modes_ruleset,
                                            {"access_distance", "egress_distance"}, "kind",
                                            "distance", 1),
                               "distance") }]

\* add_data(**kwargs) with kwargs the sequence of <<key, value>> in the order
\* given: the loop stores table after table and stops at the first exception;
\* [self, err]
RECURSIVE add_data_kwargs(_, _)
add_data_kwargs(self, kwargs) ==
    IF kwargs = <<>> THEN [self |-> self, err |-> "None"]
    ELSE CHOOSE r \in
           { IF one.err # "None" THEN [self |-> one.self, err |-> one.err]
             ELSE add_data_kwargs(one.self, Tail(kwargs)) :
               one \in {add_data(self, Head(kwargs)[1], Head(kwargs)[2])} } : TRUE

(***************************************************************************)
(* Specification Spec: a Scenario constructed without tables, with or      *)
(* without an operating zone, and then fed by add_data calls.              *)
(***************************************************************************)
TripCols == {"trip_id", "main_mode", "from_x", "from_y", "to_x", "to_y"}

\* origin and destination of a trip: both at (10, 10), or the destination at (11, 10)
TripRows ==
    [trip_id : {"t"}, main_mode : {"car"}, from_x : {10}, from_y : {10},
     to_x : {10, 11}, to_y : {10}, foo : {0}]

\* the caller's own trip ids: "t1", "t2", ... by row
WithTripIds(df) == SetColumn(df, "trip_id", [i \in DOMAIN df.rows |-> "t" \o str(i)])

NonEmpty(dfs) == { df \in dfs : shape0(df) > 0 }

\* trips tables a caller may pass: with and without trip_id, without
\* coordinates, with no recognized column, with zero rows
TripsInputs ==
    { WithTripIds(df) : df \in Tables(TripCols, TripRows, MaxRows) }
        \cup NonEmpty(Tables(TripCols \ {"trip_id"}, TripRows, 1))
        \cup Tables({"main_mode"}, TripRows, MaxRows)
        \cup Tables({"foo"}, TripRows, 1)

LegRows == [trip_id : {"t1"}, mode : {"car"}, foo : {0}]

LegsInputs ==
    NonEmpty(Tables({"trip_id", "mode"}, LegRows, 1) \cup Tables({"foo"}, LegRows, 1))

LinkRows == [vehicle_id : {"v"}, mode : {"car"}, foo : {0}]

LinksInputs == NonEmpty(Tables({"vehicle_id", "mode"}, LinkRows, 1))

NetworkInputs == NonEmpty(Tables({"link_id"}, [link_id : {"l"}], 1))

\* operating zones: one polygon, given in the scenario's crs or in the geographic
\* crs; the first holds (10, 10) only, the second (11, 10) only
ZoneInputs ==
    { GeoDataFrame("epsg:25833", {<<10, 10>>}), GeoDataFrame("epsg:4326", {<<1, 0>>}) }

Kinds == {"trips_df", "legs_df", "links_df", "network_df", "operating_zone", "foo_df"}

\* the values a caller passes for a kind; None is passed for trips_df (as the
\* constructor does) and for an unknown kind
Inputs(key) ==
    CASE key = "trips_df" -> TripsInputs \cup {None}
      [] key = "legs_df" -> LegsInputs
      [] key = "links_df" -> LinksInputs
      [] key = "network_df" -> NetworkInputs
      [] key = "operating_zone" -> ZoneInputs
      [] OTHER -> NonEmpty(Tables({"main_mode"}, TripRows, 1)) \cup {None}

\* Scenario.__init__ with the given operating zone and no table
NewScenario(operating_zone) ==
    [_trips_df |-> None, _legs_df |-> None, _links_df |-> None, _network_df |-> None,
     _operating_zone |-> IF operating_zone.none THEN None
                         ELSE to_crs(operating_zone, "epsg:4326"),
     _settings |-> DefaultSettings,
     _line_renamer |-> None]

Store(self) ==
    /\ _trips_df' = self._trips_df
    /\ _legs_df' = self._legs_df
    /\ _links_df' = self._links_df
    /\ _network_df' = self._network_df
    /\ _operating_zone' = self._operating_zone
    /\ _settings' = self._settings
    /\ _line_renamer' = self._line_renamer

\* the variables hold the scenario self
Holds(self) ==
    /\ _trips_df = self._trips_df
    /\ _legs_df = self._legs_df
    /\ _links_df = self._links_df
    /\ _network_df = self._network_df
    /\ _operating_zone = self._operating_zone
    /\ _settings = self._settings
    /\ _line_renamer = self._line_renamer

Init ==
    /\ \E z \in ZoneInputs \cup {None} : Holds(NewScenario(z))
    /\ ret = [op |-> "__init__", err |-> "None"]
    /\ _policy_scenarios = NoComparison
    /\ lastN = -1

\* scenario.add_data(key=value); value is the caller's object, ret.value the
\* same object after the call
Call_add_data(key, value, same) ==
    LET r == add_data(Self, key, value)
    IN /\ Store(r.self)
       /\ ret' = [op |-> "add_data", key |-> key, input |-> value, value |-> r.value,
                  err |-> r.err, same |-> same]
       /\ lastN' = IF key = "trips_df" /\ ~value.none /\ r.err = "None"
                   THEN shape0(value) ELSE lastN
       /\ UNCHANGED _policy_scenarios

AddData ==
    \E key \in Kinds : \E value \in Inputs(key) :
        Call_add_data(key, value, FALSE)

\* the caller passes the trips table of the previous call once more
AddDataAgain ==
    /\ ret.op = "add_data"
    /\ ret.key = "trips_df"
    /\ ~ret.same
    /\ ~ret.value.none
    /\ Call_add_data("trips_df", ret.value, TRUE)

GetNTrips ==
    /\ ret' = [op |-> "get_n_trips"] @@ get_n_trips(Self)
    /\ UNCHANGED <<_trips_df, _legs_df, _links_df, _network_df, _operating_zone,
                   _settings, _line_renamer, _policy_scenarios, lastN>>

Next == AddData \/ AddDataAgain \/ GetNTrips

Spec == Init /\ [][Next]_vars

(***************************************************************************)
(* Claims about data ingestion (specification Spec).                       *)
(***************************************************************************)
IsAddTrips(r) == r.op = "add_data" /\ r.key = "trips_df" /\ ~r.input.none

\* C4: get_n_trips() equals len(T) of the trips table T of the most recent
\* add_data(trips_df=T) call that returned without an exception.
C4_NTripsIsLenOfLastAddedTable ==
    (ret.op = "get_n_trips" /\ lastN >= 0) => (ret.err = "None" /\ ret.val = lastN)

\* C5: an add_data(trips_df=T) call that passes validation stores T's own trip_id
\* values when T has the column and the stringified index otherwise, and passing
\* the same table a second time leaves the stored trip_id values as they were.
C5_SameTableSameTripIds ==
    [][(IsAddTrips(ret') /\ ret'.err # "ValueError") =>
          /\ "trip_id" \in ret'.input.cols =>
                Column(_trips_df', "trip_id") = Column(ret'.input, "trip_id")
          /\ "trip_id" \notin ret'.input.cols =>
                \A i \in DOMAIN ret'.input.rows :
                    _trips_df'.rows[i].trip_id = str(ret'.input.index[i])
          /\ ret'.same => Column(_trips_df', "trip_id") = Column(_trips_df, "trip_id")]_vars

\* a table without trip_id was added twice; both calls returned and the stored
\* ids are the ones synthesized by the first call
C5_Witness ==
    /\ IsAddTrips(ret) /\ ret.same /\ ret.err = "None"
    /\ "foo" \notin ret.input.cols
    /\ Column(_trips_df, "trip_id") = <<"0">>

\* C6: add_data(trips_df=T) with T having no recognized column or no row raises
\* ValueError (SchemaError), T gains no column and the stored trips table is unchanged.
C6_InvalidTripsRejectedBeforeSynthesis ==
    [][(/\ IsAddTrips(ret')
        /\ \/ ret'.input.cols \cap _tables_specification.trips_df = {}
           \/ Len(ret'.input.rows) = 0) =>
          /\ ret'.err = "ValueError"
          /\ ret'.value = ret'.input
          /\ _trips_df' = _trips_df]_vars

\* a table with rows but no recognized column was rejected while a trips table is stored
C6_Witness ==
    /\ IsAddTrips(ret) /\ ret.err = "ValueError"
    /\ ret.input.cols = {"foo"} /\ Len(ret.input.rows) > 0
    /\ ~_trips_df.none

\* C7: add_data with a kind other than trips, legs, links, network and the
\* operating zone raises TypeError (InvalidArgument), whatever value is passed.
C7_UnknownKindRaises ==
    (ret.op = "add_data" /\ ret.key \notin {"trips_df", "legs_df", "links_df",
                                            "network_df", "operating_zone"})
        => ret.err = "TypeError"

(***************************************************************************)
(* Specification SpecKpi: a Scenario constructed with a trips and a legs   *)
(* table, queried for modal splits and person kilometres.                  *)
(***************************************************************************)
KpiModes == {"car", "walk", "100", "BVB10"}

KpiTrips == NonEmpty(Tables({"main_mode"}, [main_mode : KpiModes], MaxTrips))

KpiLegCols == {"trip_id", "person_id", "mode", "routed_distance"}

KpiLegs ==
    NonEmpty(Tables(KpiLegCols,
                    [trip_id : {"0"}, person_id : {"p"}, mode : {"car", "100", "BVB10"},
                     routed_distance : {0, 1500}],
                    MaxRows))

\* Scenario(code, trips_df=trips_df, legs_df=legs_df)
Constructed(operating_zone, trips_df, legs_df) ==
    add_data(add_data(NewScenario(operating_zone), "trips_df", trips_df).self,
             "legs_df", legs_df).self

KpiTrips0 == CHOOSE df \in KpiTrips : Column(df, "main_mode") = <<"car", "walk">>

KpiLegs0 ==
    CHOOSE df \in KpiLegs :
        /\ Column(df, "mode") = <<"car", "100">>
        /\ Column(df, "routed_distance") = <<1500, 1500>>

InitKpi ==
    /\ \E trips_df \in KpiTrips \cup {None}, legs_df \in KpiLegs \cup {None} :
          /\ trips_df = KpiTrips0 \/ legs_df = KpiLegs0
          /\ trips_df.none => legs_df = KpiLegs0
          /\ legs_df.none => trips_df = KpiTrips0
          /\ Holds(Constructed(None, trips_df, legs_df))
          /\ lastN = IF trips_df.none THEN -1 ELSE shape0(trips_df)
    /\ ret = [op |-> "__init__", err |-> "None"]
    /\ _policy_scenarios = NoComparison

ExcludeChoices == {{}, {"car"}, {"100", "walk"}, KpiModes}

RulesetChoices == {None, Ruleset("vsys")}

GetModalSplit ==
    /\ \E split_type \in {"volume", "performance", "distance"},
          exclude_modes \in ExcludeChoices, agg_modes_ruleset \in RulesetChoices :
          ret' = [op |-> "get_modal_split", split_type |-> split_type,
                  exclude_modes |-> exclude_modes, agg_modes_ruleset |-> agg_modes_ruleset]
                 @@ get_modal_split(Self, split_type, exclude_modes, agg_modes_ruleset)
    /\ UNCHANGED <<_trips_df, _legs_df, _links_df, _network_df, _operating_zone,
                   _settings, _line_renamer, _policy_scenarios, lastN>>

GetPersonKm ==
    /\ \E exclude_modes \in ExcludeChoices, agg_modes_ruleset \in RulesetChoices :
          ret' = [op |-> "get_person_km", exclude_modes |-> exclude_modes,
                  agg_modes_ruleset |-> agg_modes_ruleset]
                 @@ get_person_km(Self, exclude_modes, agg_modes_ruleset)
    /\ UNCHANGED <<_trips_df, _legs_df, _links_df, _network_df, _operating_zone,
                   _settings, _line_renamer, _policy_scenarios, lastN>>

NextKpi == GetModalSplit \/ GetPersonKm

SpecKpi == InitKpi /\ [][NextKpi]_vars

(***************************************************************************)
(* Claims about the modal split (specification SpecKpi).                   *)
(***************************************************************************)
IsSplit(type) == ret.op = "get_modal_split" /\ ret.split_type = type /\ ret.err = "None"

\* positions of the stored rows whose raw mode is not excluded by the call in ret
KeptTrips == { i \in DOMAIN _trips_df.rows : _trips_df.rows[i].main_mode \notin ret.exclude_modes }

KeptLegs == { i \in DOMAIN _legs_df.rows : _legs_df.rows[i].mode \notin ret.exclude_modes }

\* the (optionally remapped) label of a raw mode under the call in ret
Label(mode) ==
    IF ret.agg_modes_ruleset.none THEN mode
    ELSE IF mode \in DOMAIN vsys THEN vsys[mode] ELSE mode

\* C1: the volume split has exactly one row per (optionally remapped) main_mode
\* occurring among the trips whose raw main_mode is not excluded, and the row's n
\* is the number of those trips having that mode.
C1_VolumeSplitCountsTrips ==
    IsSplit("volume") =>
        /\ { r.mode : r \in ret.val } = { Label(_trips_df.rows[i].main_mode) : i \in KeptTrips }
        /\ \A r1, r2 \in ret.val : r1.mode = r2.mode => r1 = r2
        /\ \A r \in ret.val :
              r.n = Cardinality({ i \in KeptTrips : Label(_trips_df.rows[i].main_mode) = r.mode })

\* the trips car, walk, car give car n = 2 (share 2/3) and walk n = 1 (share 1/3)
C1_Witness ==
    /\ IsSplit("volume") /\ ret.exclude_modes = {} /\ ret.agg_modes_ruleset.none
    /\ Column(_trips_df, "main_mode") = <<"car", "walk", "car">>
    /\ ret.val = { [mode |-> "car", n |-> 2, share |-> <<2, 3>>],
                   [mode |-> "walk", n |-> 1, share |-> <<1, 3>>] }

\* the value of n as a fraction: a count for the volume split, km for the performance split
AsFrac(n) == IF ret.split_type = "volume" THEN <<n, 1>> ELSE n

\* C2: whenever the result of get_modal_split has a row, the sum of n over its rows
\* is not zero, every share is n divided by that sum, and the shares sum to 1.
C2_SharesSumToOne ==
    (ret.op = "get_modal_split" /\ ret.err = "None" /\ ret.val # {}) =>
        LET total == FracSum([r \in ret.val |-> AsFrac(r.n)], ret.val)
        IN /\ total[1] # 0 /\ total[2] # 0
           /\ \A r \in ret.val : r.share = FracDiv(AsFrac(r.n), total)
           /\ FracSum([r \in ret.val |-> r.share], ret.val) = <<1, 1>>

\* C3: the performance split has the modes and the n of get_person_km called with the
\* same arguments, and n is the summed routed_distance (metres) of the mode's legs
\* divided by 1000; so the two results have the same sum of n.
C3_PerformanceSplitIsPersonKm ==
    (ret.op = "get_modal_split" /\ ret.split_type = "performance" /\ ~_legs_df.none) =>
        LET pkm == get_person_km(Self, ret.exclude_modes, ret.agg_modes_ruleset)
            split == { [mode |-> r.mode, n |-> r.n] : r \in ret.val }
            metres(m) == IntSum([i \in KeptLegs |-> _legs_df.rows[i].routed_distance],
                                { i \in KeptLegs : Label(_legs_df.rows[i].mode) = m })
        IN /\ ret.err = pkm.err
           /\ split = pkm.val
           /\ FracSum([r \in split |-> r.n], split) = FracSum([r \in pkm.val |-> r.n], pkm.val)
           /\ { r.mode : r \in ret.val } = { Label(_legs_df.rows[i].mode) : i \in KeptLegs }
           /\ \A r \in ret.val : r.n[1] * 1000 = metres(r.mode) * r.n[2]

\* a performance split with an excluded mode and two raw modes merged by the ruleset
C3_Witness ==
    /\ IsSplit("performance") /\ ret.exclude_modes = {"car"} /\ ~ret.agg_modes_ruleset.none
    /\ Column(_legs_df, "mode") = <<"100", "BVB10">>
    /\ ret.val = { [mode |-> "Bus", n |-> <<3, 1>>, share |-> <<1, 1>>] }

(***************************************************************************)
(* Specification SpecTime: a Scenario constructed with a trips table that  *)
(* has start times; the default bin width is changed and the rows binned.  *)
(***************************************************************************)
\* seconds since midnight, also past 24 h
TimeValues == {0, 3599, 3600, 3661, 86399, 86400, 90000}

TimeTrips == NonEmpty(Tables({"start_time"}, [start_time : TimeValues], MaxRows))

InitTime ==
    /\ \E trips_df \in TimeTrips :
          /\ Holds(Constructed(None, trips_df, None))
          /\ lastN = shape0(trips_df)
    /\ ret = [op |-> "__init__", err |-> "None"]
    /\ _policy_scenarios = NoComparison

SetDefaultInterval ==
    /\ \E value \in {30, 60} :
          /\ Store(set_setting(Self, "default_time_agg_interval", value))
          /\ ret' = [op |-> "set_setting", err |-> "None", value |-> value]
    /\ UNCHANGED <<_policy_scenarios, lastN>>

\* self._add_time_indices(self._trips_df, time_interval), as get_trips_day calls it
AddTimeIndices ==
    /\ \E time_interval \in {None, Some(15), Some(60)} :
          ret' = [op |-> "_add_time_indices", err |-> "None", time_interval |-> time_interval,
                  val |-> _add_time_indices(Self, _trips_df, time_interval, "start_time")]
    /\ UNCHANGED <<_trips_df, _legs_df, _links_df, _network_df, _operating_zone,
                   _settings, _line_renamer, _policy_scenarios, lastN>>

NextTime == SetDefaultInterval \/ AddTimeIndices

SpecTime == InitTime /\ [][NextTime]_vars

\* the bin width in minutes the call in ret uses
WidthMinutes ==
    IF ret.time_interval.none THEN _settings.default_time_agg_interval
    ELSE ret.time_interval.val

\* C8: every row gets time_index = floor(time / (width * 60)), the width being the
\* settings default when none is given; nothing wraps: 3661 s with width 60 gives 1
\* and times of 86400 s or more with width 60 give 24 or more.
C8_TimeIndexIsFloorWithoutWraparound ==
    ret.op = "_add_time_indices" =>
        /\ Len(ret.val.rows) = Len(_trips_df.rows)
        /\ \A i \in DOMAIN _trips_df.rows :
              LET t == _trips_df.rows[i].start_time
                  k == ret.val.rows[i].time_index
                  w == WidthMinutes * 60
              IN /\ ret.val.rows[i].start_time = t
                 /\ k * w <= t /\ t < (k + 1) * w
                 /\ (t = 3661 /\ WidthMinutes = 60) => k = 1
                 /\ (t >= 86400 /\ WidthMinutes = 60) => k >= 24

\* binned with the settings default of 60 minutes: 3661 s is in bin 1, 90000 s in bin 25
C8_Witness ==
    /\ ret.op = "_add_time_indices" /\ ret.time_interval.none
    /\ _settings.default_time_agg_interval = 60
    /\ Column(_trips_df, "start_time") = <<3661, 90000>>
    /\ Column(ret.val, "time_index") = <<1, 25>>


(***************************************************************************)
(* Specification SpecDrt: a DRTScenario holding a trips and a legs table,  *)
(* and the intermodal analysis of the legs around the DRT legs.            *)
(***************************************************************************)
DrtTripIdsIn == {"1", "2"}

\* the legs of trip "1" have any mode, trip "2" is made of DRT legs; a leg of
\* the public transport mode "100" is on line "M10", other legs have no line
DrtLegKinds ==
    { [trip_id |-> "1", mode |-> m, line_id |-> IF m = "100" THEN "M10" ELSE NullCell] :
        m \in {"walk", "100", "drt"} }
    \cup { [trip_id |-> "2", mode |-> "drt", line_id |-> NullCell] }

DrtLegs == NonEmpty(Tables({"trip_id", "mode", "line_id"}, DrtLegKinds, MaxLegs))

\* the trips table of the legs, with or without the column contains_drt
DrtTripsOf(legs_df, flags) ==
    LET ids == <<"1", "2">>
        base == DataFrame({"trip_id", "legs_count"}, RangeIndex(2),
                  [i \in 1..2 |->
                     [trip_id |-> ids[i],
                      legs_count |-> Cardinality({ j \in DOMAIN legs_df.rows :
                                                     legs_df.rows[j].trip_id = ids[i] })]])
    IN IF flags.none THEN base
       ELSE SetColumn(base, "contains_drt", [i \in 1..2 |-> flags.of[ids[i]]])

\* without the column, or with trip "2" flagged and trip "1" flagged or not
DrtFlags ==
    {None} \cup { [none |-> FALSE, of |-> f] :
                    f \in { f \in [DrtTripIdsIn -> BOOLEAN] : f["2"] } }

\* DRTScenario(code) ; add_data(trips_df=trips_df) ; add_data(legs_df=legs_df)
InitDrt ==
    /\ \E legs_df \in DrtLegs, flags \in DrtFlags :
          Holds(Constructed(None, DrtTripsOf(legs_df, flags), legs_df))
    /\ lastN = 2
    /\ ret = [op |-> "__init__", err |-> "None"]
    /\ _policy_scenarios = NoComparison

GetDrtIntermodalAnalysis ==
    /\ \E agg_modes_ruleset \in RulesetChoices :
          ret' = [op |-> "get_drt_intermodal_analysis",
                  agg_modes_ruleset |-> agg_modes_ruleset]
                 @@ get_drt_intermodal_analysis(Self, agg_modes_ruleset)
    /\ UNCHANGED <<_trips_df, _legs_df, _links_df, _network_df, _operating_zone,
                   _settings, _line_renamer, _policy_scenarios, lastN>>

NextDrt == GetDrtIntermodalAnalysis

SpecDrt == InitDrt /\ [][NextDrt]_vars

(***************************************************************************)
(* The intermodal analysis, stated on the stored legs table.               *)
(***************************************************************************)
IsAnalysis == ret.op = "get_drt_intermodal_analysis" /\ ret.err = "None"

\* the rows of the stored legs table that are not walk legs
NonWalkLegs == { i \in DOMAIN _legs_df.rows : _legs_df.rows[i].mode # _settings.walk_mode }

NonWalkLegsOf(t) == { i \in NonWalkLegs : _legs_df.rows[i].trip_id = t }

DrtLegsOf(t) == { i \in NonWalkLegsOf(t) : _legs_df.rows[i].mode = _settings.drt_mode }

\* the 1-based position of leg i among the non-walk legs of its trip
Position(i) == Cardinality({ j \in NonWalkLegsOf(_legs_df.rows[i].trip_id) : j <= i })

\* the trip is one the analysis is about
IsDrtTrip(t) ==
    IF "contains_drt" \in _trips_df.cols
    THEN \E k \in DOMAIN _trips_df.rows :
            _trips_df.rows[k].trip_id = t /\ _trips_df.rows[k].contains_drt
    ELSE \E i \in DOMAIN _legs_df.rows :
            _legs_df.rows[i].trip_id = t /\ _legs_df.rows[i].mode = _settings.drt_mode

\* the trip's only non-walk leg is a DRT leg
OnlyDrt(t) == Cardinality(NonWalkLegsOf(t)) = 1 /\ DrtLegsOf(t) = NonWalkLegsOf(t)

\* the retained rows of a trip, of a leg
RowsOfTrip(t) == { k \in DOMAIN ret.drt_adjacent_legs : ret.drt_adjacent_legs[k].trip_id = t }

RowsOfLeg(i) ==
    { k \in DOMAIN ret.drt_adjacent_legs :
        ret.drt_adjacent_legs[k].leg_id = _legs_df.rows[i].leg_id }

\* the sum of n over the rows of the result with the order
CountOf(order) == IntSum([r \in ret.val |-> r.n], { r \in ret.val : r.order = order })

DirectOnlyForOnlyDrt ==
    \A k \in DOMAIN ret.drt_adjacent_legs :
        ret.drt_adjacent_legs[k].order = "direct" => OnlyDrt(ret.drt_adjacent_legs[k].trip_id)

OneDirectRow(t) ==
    /\ Cardinality(RowsOfTrip(t)) = 1
    /\ \A k \in RowsOfTrip(t) :
          /\ ret.drt_adjacent_legs[k].order = "direct"
          /\ ret.drt_adjacent_legs[k].mode = _settings.drt_mode

\* C9 (as stated): every trip whose only non-walk leg is the DRT leg contributes
\* exactly one leg classified direct and none classified before or after, and
\* a leg is classified direct only for such trips.
C9_OnlyDrtTripIsDirect ==
    IsAnalysis =>
        /\ \A t \in DrtTripIdsIn : OnlyDrt(t) => OneDirectRow(t)
        /\ DirectOnlyForOnlyDrt

\* C9 (amended): a trip the analysis selects as a DRT trip (flagged by
\* contains_drt when the trips table has that column, otherwise having a leg of
\* the DRT mode) whose only non-walk leg is the DRT leg contributes exactly one
\* leg classified direct and none classified before or after; a leg is
\* classified direct only for such trips, and the direct count is their number.
C9_SelectedOnlyDrtTripIsDirect ==
    IsAnalysis =>
        /\ \A t \in DrtTripIdsIn : IsDrtTrip(t) /\ OnlyDrt(t) => OneDirectRow(t)
        /\ DirectOnlyForOnlyDrt
        /\ \A k \in DOMAIN ret.drt_adjacent_legs :
              IsDrtTrip(ret.drt_adjacent_legs[k].trip_id)
        /\ CountOf("direct") = Cardinality({ t \in DrtTripIdsIn : IsDrtTrip(t) /\ OnlyDrt(t) })

\* a DRT trip made of a walk leg, the DRT leg and a walk leg is analysed and
\* gives one direct row
C9_Witness ==
    /\ IsAnalysis
    /\ Column(_legs_df, "mode") = <<"walk", "drt", "walk">>
    /\ Column(_legs_df, "trip_id") = <<"1", "1", "1">>
    /\ "contains_drt" \in _trips_df.cols
    /\ Len(ret.drt_adjacent_legs) = 1
    /\ ret.drt_adjacent_legs[1].order = "direct"

\* the DRT legs of the trip of leg i at distance exactly 1 from leg i
AdjacentDrtLegs(i) ==
    { j \in DrtLegsOf(_legs_df.rows[i].trip_id) :
        Position(i) - Position(j) \in {-1, 1} }

\* the trip has the legs walk, pt, drt, pt, walk: rows 1..5 of the legs table
IsWalkPtDrtPtWalk ==
    /\ Len(_legs_df.rows) = 5
    /\ Column(_legs_df, "mode") = <<"walk", "100", "drt", "100", "walk">>
    /\ Column(_legs_df, "trip_id") = <<"1", "1", "1", "1", "1">>

\* the pt leg before the DRT leg is kept once as before, the one after it once
\* as after, and nothing else is kept
BeforeAndAfter ==
    /\ Len(ret.drt_adjacent_legs) = 2
    /\ \A k \in RowsOfLeg(2) : ret.drt_adjacent_legs[k].order = "before"
    /\ \A k \in RowsOfLeg(4) : ret.drt_adjacent_legs[k].order = "after"
    /\ Cardinality(RowsOfLeg(2)) = 1 /\ Cardinality(RowsOfLeg(4)) = 1
    /\ CountOf("before") = 1 /\ CountOf("after") = 1 /\ CountOf("direct") = 0

\* C10 (as stated): of the legs walk, pt, drt, pt, walk the pt leg before the
\* DRT leg is classified before and the one after it after; a non-walk leg is
\* retained iff its position among the non-walk legs of its trip differs from
\* the position of the DRT leg by exactly 1.
C10_RetainedIffAdjacent ==
    IsAnalysis =>
        /\ IsWalkPtDrtPtWalk => BeforeAndAfter
        /\ \A i \in NonWalkLegs : RowsOfLeg(i) # {} <=> AdjacentDrtLegs(i) # {}

\* C10 (amended): of the legs walk, pt, drt, pt, walk of a trip selected as DRT
\* trip the pt leg before the DRT leg is classified before and the one after it
\* after; a non-walk leg is retained iff its trip is selected as DRT trip and
\* either its position among the non-walk legs of the trip differs from the
\* position of a DRT leg of the trip by exactly 1 or it is the DRT leg and the
\* only non-walk leg of the trip; it is retained once per such DRT leg, as
\* before when it precedes that leg and as after when it follows; walk legs and
\* legs two or more positions from every DRT leg are in no count.
C10_RetainedIffSelectedAndAdjacentOrSole ==
    IsAnalysis =>
        /\ IsWalkPtDrtPtWalk /\ IsDrtTrip("1") => BeforeAndAfter
        /\ \A i \in NonWalkLegs :
              LET t == _legs_df.rows[i].trip_id
                  rows == RowsOfLeg(i)
              IN /\ rows # {} <=>
                        /\ IsDrtTrip(t)
                        /\ AdjacentDrtLegs(i) # {} \/ (OnlyDrt(t) /\ i \in DrtLegsOf(t))
                 /\ IsDrtTrip(t) /\ ~OnlyDrt(t) =>
                        /\ Cardinality(rows) = Cardinality(AdjacentDrtLegs(i))
                        /\ \A j \in AdjacentDrtLegs(i) : \E k \in rows :
                              /\ ret.drt_adjacent_legs[k].drt_number = Position(j)
                              /\ ret.drt_adjacent_legs[k].order =
                                    IF Position(i) < Position(j) THEN "before" ELSE "after"
        /\ \A i \in DOMAIN _legs_df.rows : i \notin NonWalkLegs => RowsOfLeg(i) = {}
        /\ CountOf("before") + CountOf("after") + CountOf("direct") = Len(ret.drt_adjacent_legs)

\* the legs walk, pt, drt, pt, walk of a DRT trip are analysed: one leg before
\* and one leg after the DRT leg
C10_Witness ==
    /\ IsAnalysis
    /\ IsWalkPtDrtPtWalk
    /\ IsDrtTrip("1")
    /\ BeforeAndAfter

(***************************************************************************)
(* Specification SpecRides: a DRTScenario with a trips table, the setting  *)
(* drt_mode and the number of DRT rides.                                   *)
(***************************************************************************)
RidesRows ==
    [trip_id : {"t"}, contains_drt : BOOLEAN, all_modes : {"car", "a-drt", "dxt"},
     main_mode : {"car", "drt"}]

\* trips tables with any of the columns contains_drt, all_modes, main_mode
RidesTrips ==
    UNION { NonEmpty(Tables(cols \cup {"trip_id"}, RidesRows, MaxRows)) :
              cols \in SUBSET {"contains_drt", "all_modes", "main_mode"} }

DrtModeLabels == {"drt", "d.t"}

\* DRTScenario(code) ; add_data(trips_df=trips_df)
InitRides ==
    /\ \E trips_df \in RidesTrips \cup {None} :
          /\ Holds(add_data(NewScenario(None), "trips_df", trips_df).self)
          /\ lastN = IF trips_df.none THEN -1 ELSE shape0(trips_df)
    /\ ret = [op |-> "__init__", err |-> "None"]
    /\ _policy_scenarios = NoComparison

SetDrtMode ==
    /\ \E value \in DrtModeLabels : Store(set_setting(Self, "drt_mode", value))
    /\ ret' = [op |-> "set_setting", err |-> "None"]
    /\ UNCHANGED <<_policy_scenarios, lastN>>

GetNDrtRides ==
    /\ ret' = [op |-> "get_n_drt_rides"] @@ get_n_drt_rides(Self)
    /\ UNCHANGED <<_trips_df, _legs_df, _links_df, _network_df, _operating_zone,
                   _settings, _line_renamer, _policy_scenarios, lastN>>

NextRides == SetDrtMode \/ GetNDrtRides

SpecRides == InitRides /\ [][NextRides]_vars

\* s contains the label as a substring
IsSubstring(label, s) ==
    \E k \in 0..(Len(chars[s]) - Len(chars[label])) :
        \A j \in 1..Len(chars[label]) : chars[label][j] = chars[s][k + j]

\* the number of rows of the stored trips table that satisfy the criterion
\* the claim gives for the columns of the table
RidesByPrecedence ==
    Cardinality({ i \in DOMAIN _trips_df.rows :
        IF "contains_drt" \in _trips_df.cols THEN _trips_df.rows[i].contains_drt
        ELSE IF "all_modes" \in _trips_df.cols
        THEN IsSubstring(_settings.drt_mode, _trips_df.rows[i].all_modes)
        ELSE _trips_df.rows[i].main_mode = _settings.drt_mode })

\* C11: get_n_drt_rides counts by contains_drt when the trips table has the
\* column, else by all_modes containing the DRT mode label as a substring when
\* it has that column, else by main_mode equal to the DRT mode label.
C11_RidesByColumnPrecedence ==
    ret.op = "get_n_drt_rides" /\ ret.err = "None" => ret.val = RidesByPrecedence

(***************************************************************************)
(* Specification SpecPooling: a DRTScenario with a legs and a links table  *)
(* and the pooling share.                                                  *)
(***************************************************************************)
PoolLegRows ==
    [trip_id : {"t"}, person_id : {"p"}, mode : {"drt", "car"}, routed_distance : {0, 1500}]

\* legs tables, also without the column routed_distance
PoolLegs ==
    NonEmpty(Tables({"trip_id", "person_id", "mode", "routed_distance"}, PoolLegRows, MaxRows))
        \cup NonEmpty(Tables({"trip_id", "person_id", "mode"}, PoolLegRows, 1))

PoolLinkRows ==
    [link_id : {"l"}, vehicle_id : {"v"}, mode : {"drt", "car"}, link_enter_time : {0},
     distance_travelled : {0, 2000}]

\* links tables, also without the columns link_enter_time and distance_travelled
PoolLinks ==
    NonEmpty(Tables({"link_id", "vehicle_id", "mode", "link_enter_time", "distance_travelled"},
                    PoolLinkRows, MaxRows))
        \cup NonEmpty(Tables({"vehicle_id", "mode"}, PoolLinkRows, 1))

\* DRTScenario(code) ; add_data(legs_df=legs_df) ; add_data(links_df=links_df)
InitPooling ==
    /\ \E legs_df \in PoolLegs \cup {None}, links_df \in PoolLinks \cup {None} :
          Holds(add_data(add_data(NewScenario(None), "legs_df", legs_df).self,
                         "links_df", links_df).self)
    /\ lastN = -1
    /\ ret = [op |-> "__init__", err |-> "None"]
    /\ _policy_scenarios = NoComparison

GetPoolingShare ==
    /\ ret' = [op |-> "get_pooling_share"] @@ get_pooling_share(Self)
    /\ UNCHANGED <<_trips_df, _legs_df, _links_df, _network_df, _operating_zone,
                   _settings, _line_renamer, _policy_scenarios, lastN>>

GetVehicleKm ==
    /\ \E exclude_modes \in {{}, {"car"}}, agg_modes_ruleset \in RulesetChoices :
          ret' = [op |-> "get_vehicle_km", exclude_modes |-> exclude_modes,
                  agg_modes_ruleset |-> agg_modes_ruleset]
                 @@ get_vehicle_km(Self, exclude_modes, agg_modes_ruleset)
    /\ UNCHANGED <<_trips_df, _legs_df, _links_df, _network_df, _operating_zone,
                   _settings, _line_renamer, _policy_scenarios, lastN>>

NextPooling == GetPoolingShare \/ GetVehicleKm

SpecPooling == InitPooling /\ [][NextPooling]_vars

\* the stored legs, links table has a row of the DRT mode
LegsHaveDrt ==
    /\ ~_legs_df.none
    /\ "mode" \in _legs_df.cols
    /\ \E i \in DOMAIN _legs_df.rows : _legs_df.rows[i].mode = _settings.drt_mode

LinksHaveDrt ==
    /\ ~_links_df.none
    /\ "mode" \in _links_df.cols
    /\ \E i \in DOMAIN _links_df.rows : _links_df.rows[i].mode = _settings.drt_mode

\* C12: get_pooling_share fails with ValueError (DataNotFoundError), and with
\* no other error and no result, whenever the stored legs table has no row of
\* the DRT mode or the stored links table has no row of the DRT mode.
C12_PoolingShareFailsWithoutDrtRows ==
    ret.op = "get_pooling_share" =>
        /\ ~_legs_df.none /\ ~LegsHaveDrt => ret.err = "ValueError"
        /\ ~_links_df.none /\ ~LinksHaveDrt => ret.err = "ValueError"

(***************************************************************************)
(* Specification SpecShift: a Comparison of a base scenario with one or    *)
(* two policy scenarios, and the modal shift.                              *)
(***************************************************************************)
ShiftRows == [trip_id : {"t"}, person_id : {"p"}, main_mode : {"car", "drt"}]

\* trips tables with the trip ids "t1", "t2", ... by row, also without person_id
ShiftTrips ==
    { WithTripIds(df) : df \in NonEmpty(Tables({"trip_id", "person_id", "main_mode"},
                                                ShiftRows, MaxRows)) }
        \cup NonEmpty(Tables({"trip_id", "main_mode"}, ShiftRows, 1))

\* Scenario(code, trips_df=trips_df)
PolicyScenario(code, trips_df) ==
    [code |-> code] @@ add_data(NewScenario(None), "trips_df", trips_df).self

ShiftTrips0 == CHOOSE df \in ShiftTrips : Column(df, "main_mode") = <<"car", "drt">>

\* the lists of policy scenarios: one scenario "p1", or "p1" and "p2"
PolicyLists ==
    { <<PolicyScenario("p1", trips_df)>> : trips_df \in ShiftTrips \cup {None} }
        \cup { <<PolicyScenario("p1", ShiftTrips0), PolicyScenario("p2", trips_df)>> :
                 trips_df \in ShiftTrips \cup {None} }

\* base = Scenario(code, trips_df=trips_df) ; Comparison(base, policy_scenarios)
InitShift ==
    /\ \E trips_df \in ShiftTrips \cup {None}, policy_scenarios \in PolicyLists :
          /\ Holds(add_data(NewScenario(None), "trips_df", trips_df).self)
          /\ _policy_scenarios = Comparison_policy_scenarios(policy_scenarios)
          /\ lastN = IF trips_df.none THEN -1 ELSE shape0(trips_df)
    /\ ret = [op |-> "Comparison", err |-> "None"]

CodeChoices == {None, Some("p1"), Some("p2"), Some("p3")}

GetModalShift ==
    /\ \E policy_scenario_code \in CodeChoices, agg_modes_ruleset \in RulesetChoices :
          ret' = [op |-> "get_modal_shift", policy_scenario_code |-> policy_scenario_code,
                  agg_modes_ruleset |-> agg_modes_ruleset]
                 @@ get_modal_shift(Self, _policy_scenarios, policy_scenario_code,
                                    agg_modes_ruleset)
    /\ UNCHANGED <<_trips_df, _legs_df, _links_df, _network_df, _operating_zone,
                   _settings, _line_renamer, _policy_scenarios, lastN>>

NextShift == GetModalShift

SpecShift == InitShift /\ [][NextShift]_vars

\* the codes of the registered policy scenarios
RegisteredCodes == { _policy_scenarios[k].code : k \in DOMAIN _policy_scenarios }

\* C13: get_modal_shift with a code that is not registered fails with
\* ValueError (ScenarioNotFound); with a registered code it uses the scenario
\* of that code.
C13_UnregisteredCodeIsScenarioNotFound ==
    ret.op = "get_modal_shift" /\ ~ret.policy_scenario_code.none =>
        IF ret.policy_scenario_code.val \in RegisteredCodes
        THEN ret.policy = ret.policy_scenario_code.val
        ELSE ret.err = "ValueError"

(***************************************************************************)
(* Specification SpecDay: a scenario with trips that have a start time,    *)
(* the modal split and the modal split per time bin.                       *)
(***************************************************************************)
DayTrips ==
    NonEmpty(Tables({"main_mode", "start_time"},
                    [main_mode : {"car", "100"}, start_time : {0, 3600}], MaxRows))

InitDay ==
    /\ \E trips_df \in DayTrips \cup {None}, legs_df \in {KpiLegs0, None} :
          /\ Holds(Constructed(None, trips_df, legs_df))
          /\ lastN = IF trips_df.none THEN -1 ELSE shape0(trips_df)
    /\ ret = [op |-> "__init__", err |-> "None"]
    /\ _policy_scenarios = NoComparison

SplitTypeChoices == {"volume", "performance", "distance"}

GetModalSplitDay ==
    /\ \E split_type \in SplitTypeChoices, time_interval \in {Some(30), Some(60)},
          exclude_modes \in {{}, {"car"}}, agg_modes_ruleset \in RulesetChoices :
          ret' = [op |-> "get_modal_split_day", split_type |-> split_type,
                  exclude_modes |-> exclude_modes, agg_modes_ruleset |-> agg_modes_ruleset]
                 @@ get_modal_split_day(Self, split_type, time_interval, "start_time",
                                        exclude_modes, agg_modes_ruleset)
    /\ UNCHANGED <<_trips_df, _legs_df, _links_df, _network_df, _operating_zone,
                   _settings, _line_renamer, _policy_scenarios, lastN>>

NextDay == GetModalSplit \/ GetModalSplitDay

SpecDay == InitDay /\ [][NextDay]_vars

\* C14: get_modal_split raises ValueError (InvalidArgument) and returns no
\* result for every split_type other than 'volume' and 'performance';
\* get_modal_split_day does so for every split_type other than 'volume'.
C14_InvalidSplitTypeRaises ==
    /\ ret.op = "get_modal_split" /\ ret.split_type \notin {"volume", "performance"}
          => ret.err = "ValueError" /\ ret.val = {}
    /\ ret.op = "get_modal_split_day" /\ ret.split_type # "volume"
          => ret.err = "ValueError" /\ ret.val = {}

\* get_modal_split_day(split_type='performance') is refused though the trips
\* and the legs table are stored
C14_Witness ==
    /\ ret.op = "get_modal_split_day"
    /\ ret.split_type = "performance"
    /\ ret.err = "ValueError"
    /\ ~_trips_df.none
    /\ ~_legs_df.none

(***************************************************************************)
(* Specification SpecLinks: a DRTScenario without or with a links table,   *)
(* the KPI methods that read the links, and the caller adding a links      *)
(* table after a call that failed.                                         *)
(***************************************************************************)
OccLinkRows ==
    [vehicle_id : {"v"}, person_id : {"p1", "p2"}, mode : {"drt", "car"},
     link_enter_time : {0, 60}, distance_travelled : {1000}]

OccLinkCols == {"vehicle_id", "person_id", "mode", "link_enter_time", "distance_travelled"}

\* links tables with every column, and one-row tables without one of them
OccLinks ==
    NonEmpty(Tables(OccLinkCols, OccLinkRows, MaxRows))
        \cup UNION { NonEmpty(Tables(OccLinkCols \ {c}, OccLinkRows, 1)) :
                       c \in {"person_id", "mode", "distance_travelled"} }

\* DRTScenario(code) or DRTScenario(code) ; add_data(links_df=links_df)
InitLinks ==
    /\ \E links_df \in OccLinks \cup {None} :
          Holds(add_data(NewScenario(None), "links_df", links_df).self)
    /\ lastN = -1
    /\ ret = [op |-> "__init__", err |-> "None"]
    /\ _policy_scenarios = NoComparison

\* after a call that failed the caller adds a links table
AddLinksAfterFailure ==
    /\ ret.err # "None"
    /\ \E links_df \in OccLinks :
          /\ Store(add_data(Self, "links_df", links_df).self)
          /\ ret' = [op |-> "add_data", err |-> add_data(Self, "links_df", links_df).err]
    /\ UNCHANGED <<_policy_scenarios, lastN>>

GetDrtOccupancyDay ==
    /\ \E time_interval \in {60, 120} :
          ret' = [op |-> "get_drt_occupancy_day", time_interval |-> time_interval]
                 @@ get_drt_occupancy_day(Self, time_interval)
    /\ UNCHANGED <<_trips_df, _legs_df, _links_df, _network_df, _operating_zone,
                   _settings, _line_renamer, _policy_scenarios, lastN>>

NextLinks == AddLinksAfterFailure \/ GetDrtOccupancyDay \/ GetVehicleKm

SpecLinks == InitLinks /\ [][NextLinks]_vars

\* the columns of the links table a method reads
LinksColumnsRead(op) ==
    IF op = "get_drt_occupancy_day"
    THEN {"mode", "link_enter_time", "vehicle_id", "person_id"}
    ELSE {"vehicle_id", "mode", "link_id", "link_enter_time", "distance_travelled"}

\* C15: a KPI method that reads the links table (get_drt_occupancy_day,
\* get_vehicle_km) fails with AssertionError (MissingDataError), and with no
\* other error, when the links table has not been added or lacks a column the
\* method reads, and succeeds when the table holds them.
C15_MissingDataIsAssertionError ==
    ret.op \in {"get_drt_occupancy_day", "get_vehicle_km"} =>
        IF _links_df.none \/ ~(LinksColumnsRead(ret.op) \subseteq _links_df.cols)
        THEN ret.err = "AssertionError"
        ELSE ret.err = "None"

(***************************************************************************)
(* Claims about the operating zone (specification Spec).                   *)
(***************************************************************************)
\* the point (x, y) of the scenario's coordinate system lies within the
\* stored zone
InZone(x, y) == transform(<<x, y>>, _settings.crs, "epsg:4326") \in _operating_zone.geometry

ZoneColumns == {"starts_in_zone", "ends_in_zone", "relation_type"}

Annotated == ~_operating_zone.none /\ ~_trips_df.none /\ ZoneColumns \subseteq _trips_df.cols

\* C16: when an operating zone is set, every annotated trip has starts_in_zone
\* and ends_in_zone equal to the membership of its origin and destination in
\* the zone, and relation_type "inland" iff both lie inside, "od" iff exactly
\* one does, "outside" iff neither does.
C16_RelationTypeByMembership ==
    Annotated =>
        \A i \in DOMAIN _trips_df.rows :
            \A row \in {_trips_df.rows[i]} :
                \A o \in {InZone(row.from_x, row.from_y)}, d \in {InZone(row.to_x, row.to_y)} :
                    /\ row.starts_in_zone = o
                    /\ row.ends_in_zone = d
                    /\ (row.relation_type = "inland") <=> (o /\ d)
                    /\ (row.relation_type = "od") <=> (o # d)
                    /\ (row.relation_type = "outside") <=> (~o /\ ~d)

\* an annotated table with an "inland" trip and an "od" trip
C16_Witness ==
    /\ Annotated
    /\ \E i, j \in DOMAIN _trips_df.rows :
          /\ _trips_df.rows[i].relation_type = "inland"
          /\ _trips_df.rows[j].relation_type = "od"


Coordinates == {"from_x", "from_y", "to_x", "to_y"}

\* C17: add_data accepts the operating zone before or after the trips table
\* (a zone is added without an exception when no trips table is stored or the
\* stored one has the coordinate columns; a trips table with rows and
\* coordinates is added without an exception), and whenever a zone and a trips table with
\* coordinates are both stored, every trip carries starts_in_zone,
\* ends_in_zone and a relation_type in {inland, od, outside}, each once.
C17_EitherOrderAnnotates ==
    /\ (ret.op = "add_data" /\ ret.key = "operating_zone"
            /\ (_trips_df.none \/ Coordinates \subseteq _trips_df.cols))
          => ret.err = "None"
    /\ (ret.op = "add_data" /\ ret.key = "trips_df" /\ ~ret.input.none
            /\ Coordinates \subseteq ret.input.cols /\ shape0(ret.input) > 0)
          => ret.err = "None"
    /\ (~_operating_zone.none /\ ~_trips_df.none /\ Coordinates \subseteq _trips_df.cols)
          => /\ ZoneColumns \subseteq _trips_df.cols
             /\ \A i \in DOMAIN _trips_df.rows :
                   /\ ZoneColumns \subseteq DOMAIN _trips_df.rows[i]
                   /\ _trips_df.rows[i].relation_type \in {"inland", "od", "outside"}

(***************************************************************************)
(* Construction.                                                           *)
(***************************************************************************)
\* one self.add_data(key=value) of __init__; skipped after an exception; a
\* value without columns (not a DataFrame) fails in
\* _check_specification_compliance
InitAdd(r, key, value) ==
    CHOOSE out \in { IF r0.err # "None" THEN r0
                     ELSE IF ~value.none /\ "cols" \notin DOMAIN value
                     THEN [self |-> r0.self, err |-> "AttributeError"]
                     ELSE CHOOSE a \in { [self |-> d.self, err |-> d.err] :
                                           d \in {add_data(r0.self, key, value)} } : TRUE :
                     r0 \in {r} } : TRUE

\* Scenario.__init__(code, name, description, operating_zone, trips_df, legs_df,
\* links_df, network_df, line_renamer): [self, err]
Scenario__init__(operating_zone, trips_df, legs_df, links_df, network_df, line_renamer) ==
    IF ~operating_zone.none /\ "crs" \notin DOMAIN operating_zone
    THEN [self |-> NewScenario(None), err |-> "AttributeError"]
    ELSE InitAdd(InitAdd(InitAdd(InitAdd(
            [self |-> [NewScenario(operating_zone) EXCEPT !._line_renamer = line_renamer],
             err |-> "None"],
            "trips_df", trips_df), "legs_df", legs_df), "links_df", links_df),
            "network_df", network_df)

\* DRTScenario.__init__: the arguments are passed on by position
DRTScenario__init__(trips_df, legs_df, links_df, network_df, line_renamer) ==
    Scenario__init__(trips_df, legs_df, links_df, network_df, line_renamer, None)

\* get_trips_df, get_legs_df, get_links_df: [err, val]
get_table(self, df_name) ==
    IF _require_table(self, df_name, {}) # "None" THEN [err |-> "AssertionError", val |-> None]
    ELSE [err |-> "None",
          val |-> CASE df_name = "trips_df" -> self._trips_df
                    [] df_name = "legs_df" -> self._legs_df
                    [] OTHER -> self._links_df]

(***************************************************************************)
(* Specification SpecCtor: DRTScenario(code, trips_df=..., legs_df=...,    *)
(* links_df=..., network_df=..., line_renamer=...) and the getters.        *)
(***************************************************************************)
CtorTrips == { WithTripIds(df) : df \in NonEmpty(Tables(TripCols, TripRows, MaxRows)) }

CtorRenamers == { [none |-> FALSE, dict |-> [l |-> "L"]] }

CtorArgs ==
    [trips_df : CtorTrips \cup {None}, legs_df : LegsInputs \cup {None},
     links_df : LinksInputs \cup {None}, network_df : NetworkInputs \cup {None},
     line_renamer : CtorRenamers \cup {None}]

DRTScenario(args) ==
    DRTScenario__init__(args.trips_df, args.legs_df, args.links_df, args.network_df,
                        args.line_renamer)

\* when __init__ raises there is no object: the variables hold no data
InitCtor ==
    /\ \E args \in CtorArgs :
          \E made \in {DRTScenario(args)} :
              /\ Holds(IF made.err = "None" THEN made.self ELSE NewScenario(None))
              /\ ret = [op |-> "DRTScenario", args |-> args, err |-> made.err]
    /\ _policy_scenarios = NoComparison
    /\ lastN = -1

ObjectExists == ~(ret.op = "DRTScenario" /\ ret.err # "None")

\* get_trips_df(), get_legs_df(), get_links_df()
GetTable ==
    /\ ObjectExists
    /\ \E df_name \in {"trips_df", "legs_df", "links_df"} :
          ret' = [op |-> "get_" \o df_name, args |-> ret.args] @@ get_table(Self, df_name)
    /\ UNCHANGED <<_trips_df, _legs_df, _links_df, _network_df, _operating_zone,
                   _settings, _line_renamer, _policy_scenarios, lastN>>

NextCtor == GetTable

SpecCtor == InitCtor /\ [][NextCtor]_vars

\* Scenario(code, line_renamer=...) followed by add_data for each kind
ByAddData(args) ==
    InitAdd(InitAdd(InitAdd(InitAdd(
        [self |-> [NewScenario(None) EXCEPT !._line_renamer = args.line_renamer],
         err |-> "None"],
        "trips_df", args.trips_df), "legs_df", args.legs_df), "links_df", args.links_df),
        "network_df", args.network_df)

\* C18: a DRTScenario constructed with trips, legs, links and network tables
\* and a line renamer (each of which add_data accepts) is constructed without
\* an exception and holds what a Scenario holds after add_data of each kind:
\* the getters return the supplied trips, legs and links tables, the line
\* renamer is the one supplied and no operating zone is set.
C18_ConstructorStoresEachRole ==
    ByAddData(ret.args).err = "None" =>
        /\ ret.op = "DRTScenario" => (ret.err = "None" /\ Self = ByAddData(ret.args).self)
        /\ ret.op = "get_trips_df" => ret.val = ByAddData(ret.args).self._trips_df
        /\ ret.op = "get_legs_df" => ret.val = ByAddData(ret.args).self._legs_df
        /\ ret.op = "get_links_df" => ret.val = ByAddData(ret.args).self._links_df
        /\ _operating_zone.none
        /\ ObjectExists => _line_renamer = ret.args.line_renamer

(***************************************************************************)
(* Specification SpecStats: a scenario with a trips table and the travel   *)
(* distance statistics.                                                    *)
(***************************************************************************)
StatsTrips ==
    NonEmpty(Tables({"main_mode", "routed_distance"},
                    [main_mode : {"car", "walk"}, routed_distance : {0, 1000, 3000}],
                    MaxTrips))

InitStats ==
    /\ \E trips_df \in StatsTrips \cup {None} : Holds(Constructed(None, trips_df, None))
    /\ lastN = -1
    /\ ret = [op |-> "__init__", err |-> "None"]
    /\ _policy_scenarios = NoComparison

GetTravelDistanceStats ==
    /\ \E stats_for \in {"trips", "legs", "persons"}, distinguish_modes \in BOOLEAN,
          agg_modes_ruleset \in RulesetChoices :
          ret' = [op |-> "get_travel_distance_stats", stats_for |-> stats_for,
                  distinguish_modes |-> distinguish_modes,
                  agg_modes_ruleset |-> agg_modes_ruleset]
                 @@ get_travel_distance_stats(Self, stats_for, distinguish_modes,
                                              agg_modes_ruleset, "routed_distance")
    /\ UNCHANGED <<_trips_df, _legs_df, _links_df, _network_df, _operating_zone,
                   _settings, _line_renamer, _policy_scenarios, lastN>>

NextStats == GetTravelDistanceStats

SpecStats == InitStats /\ [][NextStats]_vars

IsGroupedStats ==
    /\ ret.op = "get_travel_distance_stats"
    /\ ret.stats_for = "trips"
    /\ ret.distinguish_modes
    /\ ~_trips_df.none

\* the routed distances of the trips whose (remapped) main mode is m
DistancesOf(m) ==
    { _trips_df.rows[i].routed_distance :
        i \in { i \in DOMAIN _trips_df.rows :
                  Remapped(Self, _trips_df.rows[i].main_mode, ret.agg_modes_ruleset) = m } }

TripsOfMode(m) ==
    { i \in DOMAIN _trips_df.rows :
        Remapped(Self, _trips_df.rows[i].main_mode, ret.agg_modes_ruleset) = m }

\* the stored trips table with its rows in the order p
Reordered(p) ==
    [_trips_df EXCEPT !.rows = [i \in DOMAIN _trips_df.rows |-> _trips_df.rows[p[i]]]]

\* C19: the statistics per main mode are computed without an exception; for a
\* mode with a single trip of distance x, mean, median, min and max are x and
\* std is NaN; and the result is the same for every order of the table's rows.
C19_SingleValueGroupAndRowOrder ==
    IsGroupedStats =>
        /\ ret.err = "None"
        /\ \A r \in ret.val :
              Cardinality(TripsOfMode(r.main_mode)) = 1 =>
                  \A x \in DistancesOf(r.main_mode) :
                      /\ r.mean = <<x, 1>> /\ r.median = <<x, 1>>
                      /\ r.min = <<x, 1>> /\ r.max = <<x, 1>>
                      /\ r.std = NaN
        /\ \A p \in Permutations(DOMAIN _trips_df.rows) :
              get_travel_distance_stats([Self EXCEPT !._trips_df = Reordered(p)], "trips", TRUE,
                                        ret.agg_modes_ruleset, "routed_distance").val = ret.val

\* statistics of a table with a single trip of one mode and, of another mode,
\* trips that are not in ascending order of distance
C19_Witness ==
    /\ IsGroupedStats
    /\ ret.err = "None"
    /\ \E r \in ret.val : Cardinality(TripsOfMode(r.main_mode)) = 1
    /\ \E r \in ret.val :
          /\ Cardinality(DistancesOf(r.main_mode)) = 2
          /\ \E i, j \in TripsOfMode(r.main_mode) :
                i < j /\ _trips_df.rows[i].routed_distance > _trips_df.rows[j].routed_distance

(***************************************************************************)
(* Specification SpecLegs: add_data(legs_df=...) with legs tables with and *)
(* without the columns leg_number and trip_id.                             *)
(***************************************************************************)
LegNumberRows == [trip_id : {"t1", "t2"}, mode : {"car"}, leg_number : {1, 2}]

LegsTables ==
    NonEmpty(Tables({"trip_id", "mode", "leg_number"}, LegNumberRows, MaxTrips))
        \cup NonEmpty(Tables({"trip_id", "mode"}, LegNumberRows, MaxTrips))
        \cup NonEmpty(Tables({"mode"}, LegNumberRows, 1))

InitLegs ==
    /\ \E legs_df \in LegsTables \cup {None} : Holds(Constructed(None, None, legs_df))
    /\ lastN = -1
    /\ ret = [op |-> "__init__", err |-> "None"]
    /\ _policy_scenarios = NoComparison

AddLegs ==
    /\ \E legs_df \in LegsTables :
          \E r \in {add_data(Self, "legs_df", legs_df)} :
              /\ Store(r.self)
              /\ ret' = [op |-> "add_data", key |-> "legs_df", input |-> legs_df,
                         err |-> r.err]
    /\ UNCHANGED <<_policy_scenarios, lastN>>

NextLegs == AddLegs

SpecLegs == InitLegs /\ [][NextLegs]_vars

\* the 1-based position of row i among the rows of df with the same trip_id
PositionInTrip(df, i) ==
    Cardinality({ j \in 1..i : df.rows[j].trip_id = df.rows[i].trip_id })

\* C20: every stored legs table has for each trip_id the leg numbers 1, 2,
\* ..., k in row order, and add_data of a table without a leg_number column
\* returns without an exception, having given each leg its 1-based position
\* among the legs of its trip_id in input row order.
C20_LegNumbersContiguousFromOne ==
    /\ ~_legs_df.none =>
          /\ {"trip_id", "leg_number"} \subseteq _legs_df.cols
          /\ \A i \in DOMAIN _legs_df.rows :
                _legs_df.rows[i].leg_number = PositionInTrip(_legs_df, i)
    /\ (ret.op = "add_data" /\ ret.key = "legs_df" /\ "leg_number" \notin ret.input.cols)
          => /\ ret.err = "None"
             /\ Column(_legs_df, "trip_id") = Column(ret.input, "trip_id")

(***************************************************************************)
(* Further claims about the intermodal analysis (specification SpecDrt).   *)
(***************************************************************************)
\* the row of the stored legs table a retained row comes of
LegOf(k) ==
    CHOOSE i \in DOMAIN _legs_df.rows : _legs_df.rows[i].leg_id = ret.drt_adjacent_legs[k].leg_id

\* only walk legs of the trip lie between the legs i and d of one trip
OnlyWalkBetween(i, d) ==
    \A j \in DOMAIN _legs_df.rows :
        (/\ _legs_df.rows[j].trip_id = _legs_df.rows[i].trip_id
         /\ (i < j /\ j < d) \/ (d < j /\ j < i))
            => _legs_df.rows[j].mode = _settings.walk_mode

\* C21: every retained leg is a non-walk leg whose leg_number is its 1-based
\* position among the non-walk legs of its trip in row order and whose
\* legs_count is the number of non-walk legs of the trip; a non-walk leg of a
\* selected trip that only walk legs separate from a DRT leg of the trip is
\* retained as adjacent.
C21_RenumberedAfterWalkRemoval ==
    IsAnalysis =>
        /\ \A k \in DOMAIN ret.drt_adjacent_legs :
              \A i \in {LegOf(k)} :
                  /\ i \in NonWalkLegs
                  /\ ret.drt_adjacent_legs[k].leg_number = Position(i)
                  /\ ret.drt_adjacent_legs[k].legs_count =
                        Cardinality(NonWalkLegsOf(_legs_df.rows[i].trip_id))
        /\ \A i \in NonWalkLegs :
              \A d \in DrtLegsOf(_legs_df.rows[i].trip_id) :
                  (IsDrtTrip(_legs_df.rows[i].trip_id) /\ i # d /\ OnlyWalkBetween(i, d))
                      => RowsOfLeg(i) # {}

\* the trip pt, walk, drt: the stored leg numbers are 1, 2, 3, and the pt leg
\* is retained as the leg before the DRT leg with the leg number 1 of 2
C21_Witness ==
    /\ IsAnalysis
    /\ Column(_legs_df, "mode") = <<"100", "walk", "drt">>
    /\ Column(_legs_df, "trip_id") = <<"1", "1", "1">>
    /\ Column(_legs_df, "leg_number") = <<1, 2, 3>>
    /\ \E k \in DOMAIN ret.drt_adjacent_legs :
          /\ ret.drt_adjacent_legs[k].mode = "100"
          /\ ret.drt_adjacent_legs[k].order = "before"
          /\ ret.drt_adjacent_legs[k].leg_number = 1
          /\ ret.drt_adjacent_legs[k].drt_number = 2
          /\ ret.drt_adjacent_legs[k].legs_count = 2


\* the retained rows of leg i for the anchor at the position of the DRT leg d
RowsOfLegAndAnchor(i, d) ==
    { k \in RowsOfLeg(i) : ret.drt_adjacent_legs[k].drt_number = Position(d) }

\* C22: the anchors of a selected trip are the positions of its DRT legs, one
\* per DRT leg; a non-walk leg has exactly one retained row for each anchor of
\* its trip it is adjacent to (at distance 1, or being the sole leg) and none
\* for any other anchor, and every retained row belongs to such a pair.
C22_OneRowPerLegAndAnchor ==
    IsAnalysis =>
        /\ \A i \in NonWalkLegs :
              IsDrtTrip(_legs_df.rows[i].trip_id) =>
                  \A d \in DrtLegsOf(_legs_df.rows[i].trip_id) :
                      Cardinality(RowsOfLegAndAnchor(i, d)) =
                          IF \/ Position(i) - Position(d) \in {-1, 1}
                             \/ OnlyDrt(_legs_df.rows[i].trip_id)
                          THEN 1 ELSE 0
        /\ \A k \in DOMAIN ret.drt_adjacent_legs :
              \E d \in DrtLegsOf(ret.drt_adjacent_legs[k].trip_id) :
                  ret.drt_adjacent_legs[k].drt_number = Position(d)
        /\ \A i \in NonWalkLegs :
              Cardinality(RowsOfLeg(i)) =
                  Cardinality({ d \in DrtLegsOf(_legs_df.rows[i].trip_id) :
                                  RowsOfLegAndAnchor(i, d) # {} })

\* the trip drt, pt, drt: the pt leg is retained once as the leg after the
\* first DRT leg and once as the leg before the second
C22_Witness ==
    /\ IsAnalysis
    /\ Column(_legs_df, "mode") = <<"drt", "100", "drt">>
    /\ Column(_legs_df, "trip_id") = <<"1", "1", "1">>
    /\ Cardinality(RowsOfLeg(2)) = 2
    /\ \E k \in RowsOfLeg(2) :
          ret.drt_adjacent_legs[k].order = "after" /\ ret.drt_adjacent_legs[k].drt_number = 1
    /\ \E k \in RowsOfLeg(2) :
          ret.drt_adjacent_legs[k].order = "before" /\ ret.drt_adjacent_legs[k].drt_number = 3
    /\ \E r \in ret.val : r.mode = "100" /\ r.order = "after" /\ r.n = 1
    /\ \E r \in ret.val : r.mode = "100" /\ r.order = "before" /\ r.n = 1


\* C23: no row of the result has a mode that denotes the DRT mode, neither
\* the configured label nor the label the ruleset of the call remaps it to;
\* the rows classified direct have the null mode.
C23_NoDrtModeInResult ==
    IsAnalysis =>
        \A r \in ret.val :
            /\ r.mode # _settings.drt_mode
            /\ r.mode # Remapped(Self, _settings.drt_mode, ret.agg_modes_ruleset)
            /\ r.order = "direct" => r.mode = NullCell

(***************************************************************************)
(* Specification SpecVehicleKm: a scenario with a links table in which     *)
(* several rows may record the same traversal.                             *)
(***************************************************************************)
TraversalRows ==
    [link_id : {"l1", "l2"}, vehicle_id : {"v"}, mode : {"car", "100"}, link_enter_time : {0},
     distance_travelled : {1000, 2000}]

TraversalLinks ==
    NonEmpty(Tables({"link_id", "vehicle_id", "mode", "link_enter_time", "distance_travelled"},
                    TraversalRows, MaxTrips))

InitVehicleKm ==
    /\ \E links_df \in TraversalLinks :
          Holds(add_data(NewScenario(None), "links_df", links_df).self)
    /\ lastN = -1
    /\ ret = [op |-> "__init__", err |-> "None"]
    /\ _policy_scenarios = NoComparison

NextVehicleKm == GetVehicleKm

SpecVehicleKm == InitVehicleKm /\ [][NextVehicleKm]_vars

\* the link rows the call does not exclude
LinksKept == { i \in DOMAIN _links_df.rows : _links_df.rows[i].mode \notin ret.exclude_modes }

Traversal(i) ==
    <<_links_df.rows[i].vehicle_id, _links_df.rows[i].link_id, _links_df.rows[i].link_enter_time>>

\* the first kept row of every traversal
FirstOfTraversal == { i \in LinksKept : \A j \in LinksKept : Traversal(j) = Traversal(i) => i <= j }

\* the metres of the traversals whose first row has the (remapped) mode m
MetresOf(m) ==
    IntSum([i \in DOMAIN _links_df.rows |-> _links_df.rows[i].distance_travelled],
           { i \in FirstOfTraversal :
               Remapped(Self, _links_df.rows[i].mode, ret.agg_modes_ruleset) = m })

\* C24: after the link rows of excluded modes are removed and link rows that
\* agree on (vehicle_id, link_id, link_enter_time) are reduced to the first of
\* them, get_vehicle_km returns one row per (remapped) mode of the remaining
\* rows, with n their metres / 1000: every traversal contributes its distance
\* once.
C24_VehicleKmCountsTraversalOnce ==
    (ret.op = "get_vehicle_km" /\ ~_links_df.none) =>
        /\ ret.err = "None"
        /\ { r.mode : r \in ret.val } =
              { Remapped(Self, _links_df.rows[i].mode, ret.agg_modes_ruleset) :
                  i \in FirstOfTraversal }
        /\ \A r \in ret.val : r.n = Frac(MetresOf(r.mode), 1000)
        /\ \A r1, r2 \in ret.val : r1.mode = r2.mode => r1 = r2

\* three car rows of 1000 m, two of them of the same traversal: 2 km
C24_Witness ==
    /\ ret.op = "get_vehicle_km"
    /\ ret.exclude_modes = {}
    /\ Column(_links_df, "link_id") = <<"l1", "l1", "l2">>
    /\ Column(_links_df, "mode") = <<"car", "car", "car">>
    /\ Column(_links_df, "distance_travelled") = <<1000, 1000, 1000>>
    /\ ret.val = {[mode |-> Remapped(Self, "car", ret.agg_modes_ruleset), n |-> <<2, 1>>]}

(***************************************************************************)
(* Specification SpecOccupancy: a DRTScenario with a links table of two    *)
(* vehicles and two passengers.                                            *)
(***************************************************************************)
RideRows ==
    [vehicle_id : {"v1", "v2"}, person_id : {"p1", "p2"}, mode : {"drt", "car"},
     link_enter_time : {0, 60}]

RideLinks ==
    NonEmpty(Tables({"vehicle_id", "person_id", "mode", "link_enter_time"}, RideRows, MaxTrips))

InitOccupancy ==
    /\ \E links_df \in RideLinks :
          Holds(add_data(NewScenario(None), "links_df", links_df).self)
    /\ lastN = -1
    /\ ret = [op |-> "__init__", err |-> "None"]
    /\ _policy_scenarios = NoComparison

NextOccupancy == GetDrtOccupancyDay

SpecOccupancy == InitOccupancy /\ [][NextOccupancy]_vars

\* the link rows of the configured DRT mode, and those in the time bin b
DrtLinkRows == { i \in DOMAIN _links_df.rows : _links_df.rows[i].mode = _settings.drt_mode }

DrtLinkRowsIn(b) ==
    { i \in DrtLinkRows : _links_df.rows[i].link_enter_time \div ret.time_interval = b }

\* the DRT vehicles that enter a link in the bin b
VehiclesIn(b) == { _links_df.rows[i].vehicle_id : i \in DrtLinkRowsIn(b) }

\* the distinct persons of the vehicle v in the bin b, minus one
OccupancyOf(b, v) ==
    Cardinality({ _links_df.rows[i].person_id :
                    i \in { i \in DrtLinkRowsIn(b) : _links_df.rows[i].vehicle_id = v } }) - 1

\* C25: get_drt_occupancy_day(time_interval) returns, for each time bin
\* link_enter_time // time_interval in which a link of the configured DRT mode
\* is entered and each occupancy (distinct person_id values minus one) a DRT
\* vehicle has in the bin, the number of DRT vehicles with that occupancy; the
\* n of a bin sum to the number of distinct DRT vehicles of the bin.
C25_OccupancyCountsVehiclesPerBin ==
    (ret.op = "get_drt_occupancy_day" /\ "person_id" \in _links_df.cols /\ ret.err = "None") =>
        /\ { [time_index |-> r.time_index, occupancy |-> r.occupancy] : r \in ret.val } =
              UNION { { [time_index |-> b, occupancy |-> OccupancyOf(b, v)] : v \in VehiclesIn(b) } :
                        b \in { _links_df.rows[i].link_enter_time \div ret.time_interval :
                                  i \in DrtLinkRows } }
        /\ \A r \in ret.val :
              r.n = Cardinality({ v \in VehiclesIn(r.time_index) :
                                    OccupancyOf(r.time_index, v) = r.occupancy })
        /\ \A r \in ret.val :
              IntSum([q \in ret.val |-> q.n], { q \in ret.val : q.time_index = r.time_index })
                  = Cardinality(VehiclesIn(r.time_index))

\* in the bin 0 of 60 seconds the vehicle v1 carries two persons and v2 one
C25_Witness ==
    /\ ret.op = "get_drt_occupancy_day"
    /\ ret.time_interval = 60
    /\ Column(_links_df, "vehicle_id") = <<"v1", "v1", "v2">>
    /\ Column(_links_df, "person_id") = <<"p1", "p2", "p1">>
    /\ Column(_links_df, "mode") = <<"drt", "drt", "drt">>
    /\ Column(_links_df, "link_enter_time") = <<0, 0, 0>>
    /\ ret.val = { [time_index |-> 0, occupancy |-> 1, n |-> 1],
                   [time_index |-> 0, occupancy |-> 0, n |-> 1] }

(***************************************************************************)
(* The modal shift, stated on the stored trips tables (SpecShift).         *)
(***************************************************************************)
IsShift == ret.op = "get_modal_shift" /\ ret.err = "None"

\* the trips table of the policy scenario the call used
PolicyTrips ==
    _policy_scenarios[CHOOSE k \in DOMAIN _policy_scenarios :
                        _policy_scenarios[k].code = ret.policy].sc._trips_df

\* the base trips that match the policy trip i on trip_id and person_id
BaseTripsOf(i) ==
    { j \in DOMAIN _trips_df.rows :
        /\ _trips_df.rows[j].trip_id = PolicyTrips.rows[i].trip_id
        /\ _trips_df.rows[j].person_id = PolicyTrips.rows[i].person_id }

\* C26: the result has a row for each (base mode, policy mode) pair, both
\* remapped by the ruleset of the call, of a policy trip and its matching base
\* trip, with n the number of policy trips of that policy mode whose matching
\* base trip has that base mode; the n sum to the number of policy trips that
\* have a matching base trip (the keys are unique in both tables).
C26_ShiftCountsMatchedPolicyTrips ==
    IsShift =>
        /\ \A r \in ret.val :
              /\ r.n > 0
              /\ r.n = Cardinality({ i \in DOMAIN PolicyTrips.rows :
                          /\ Remapped(Self, PolicyTrips.rows[i].main_mode, ret.agg_modes_ruleset)
                                = r.main_mode_policy
                          /\ \E j \in BaseTripsOf(i) :
                                Remapped(Self, _trips_df.rows[j].main_mode, ret.agg_modes_ruleset)
                                   = r.main_mode_base })
        /\ \A i \in DOMAIN PolicyTrips.rows : \A j \in BaseTripsOf(i) :
              \E r \in ret.val :
                  /\ r.main_mode_policy
                        = Remapped(Self, PolicyTrips.rows[i].main_mode, ret.agg_modes_ruleset)
                  /\ r.main_mode_base
                        = Remapped(Self, _trips_df.rows[j].main_mode, ret.agg_modes_ruleset)
        /\ IntSum([r \in ret.val |-> r.n], ret.val)
              = Cardinality({ i \in DOMAIN PolicyTrips.rows : BaseTripsOf(i) # {} })

\* the base has the car trip t1; the policy scenario has t1 by drt and a trip
\* t2 without base trip: one trip shifted from car to drt
C26_Witness ==
    /\ IsShift
    /\ ret.agg_modes_ruleset.none
    /\ Column(_trips_df, "main_mode") = <<"car">>
    /\ Column(PolicyTrips, "main_mode") = <<"drt", "car">>
    /\ ret.val = {[main_mode_base |-> "car", main_mode_policy |-> "drt", n |-> 1]}

(***************************************************************************)
(* Specification SpecEta: a DRTScenario with a legs table, the DRT mode    *)
(* label being set, and the ETA statistics per time bin.                   *)
(***************************************************************************)
EtaRows ==
    [trip_id : {"t"}, leg_id : {1}, mode : DrtModeLabels, start_time : {0, 3600},
     waiting_time : {60, 120}]

\* legs tables with the trip ids "t1", "t2", ... by row, also without the
\* column waiting_time or start_time
EtaLegs ==
    { WithTripIds(df) :
        df \in NonEmpty(Tables({"trip_id", "leg_id", "mode", "start_time", "waiting_time"},
                                   EtaRows, MaxRows))
               \cup NonEmpty(Tables({"trip_id", "leg_id", "mode", "start_time"}, EtaRows, 1))
               \cup NonEmpty(Tables({"trip_id", "leg_id", "mode", "waiting_time"}, EtaRows, 1)) }

InitEta ==
    /\ \E legs_df \in EtaLegs \cup {None} : Holds(Constructed(None, None, legs_df))
    /\ lastN = -1
    /\ ret = [op |-> "__init__", err |-> "None"]
    /\ _policy_scenarios = NoComparison

GetEtaDay ==
    /\ \E time_interval \in {None, Some(30)} :
          ret' = [op |-> "get_eta_day", time_interval |-> time_interval]
                 @@ get_eta_day(Self, time_interval)
    /\ UNCHANGED <<_trips_df, _legs_df, _links_df, _network_df, _operating_zone,
                   _settings, _line_renamer, _policy_scenarios, lastN>>

NextEta == SetDrtMode \/ GetEtaDay

SpecEta == InitEta /\ [][NextEta]_vars

\* the time bin of the leg i for the interval (in minutes) of the call
EtaBin(i) ==
    _legs_df.rows[i].start_time \div
        (60 * (IF ret.time_interval.none THEN _settings.default_time_agg_interval
               ELSE ret.time_interval.val))

\* the legs of the configured DRT mode in the time bin b, in row order
ConfiguredDrtLegs(b) ==
    SelectIdx([i \in DOMAIN _legs_df.rows |->
                  _legs_df.rows[i].mode = _settings.drt_mode /\ EtaBin(i) = b])

\* C27: get_eta_day reports, for every time bin with a leg whose mode is the
\* DRT label configured in the settings, the statistics of the waiting_time of
\* exactly those legs, and nothing else.
C27_EtaOfConfiguredDrtMode ==
    (ret.op = "get_eta_day" /\ ret.err = "None" /\ "waiting_time" \in _legs_df.cols) =>
        ret.val =
            { ("time_index" :> b)
                @@ describe([n \in DOMAIN ConfiguredDrtLegs(b) |->
                               _legs_df.rows[ConfiguredDrtLegs(b)[n]].waiting_time]) :
                b \in { EtaBin(i) : i \in { i \in DOMAIN _legs_df.rows :
                                              _legs_df.rows[i].mode = _settings.drt_mode } } }

(***************************************************************************)
(* Specification SpecFrame: a DRTScenario with a trips, a legs and a links *)
(* table, compared with one policy scenario, and the KPI queries.  A query *)
(* leaves in the tables what its assignments leave in the objects the      *)
(* attributes refer to.                                                    *)
(***************************************************************************)
\* times are whole minutes, in seconds
FrameTrips ==
    { WithTripIds(df) :
        df \in NonEmpty(Tables({"trip_id", "person_id", "main_mode", "start_time",
                                "travel_time", "waiting_time", "access_time", "egress_time",
                                "access_distance", "egress_distance", "routed_distance",
                                "legs_count"},
                               [trip_id : {"t"}, person_id : {"p"}, main_mode : {"car", "drt"},
                                start_time : {3600}, travel_time : {600},
                                waiting_time : {60}, access_time : {120}, egress_time : {60},
                                access_distance : {100}, egress_distance : {50},
                                routed_distance : {2000}, legs_count : {1}],
                               MaxRows)) }

FrameLegs ==
    NonEmpty(Tables({"trip_id", "person_id", "mode", "line_id", "travel_time", "waiting_time",
                     "routed_distance"},
                    [trip_id : {"t1"}, person_id : {"p"}, mode : {"walk", "drt", "100"},
                     line_id : {NullCell}, travel_time : {600}, waiting_time : {60},
                     routed_distance : {1500}],
                    MaxRows))

FrameLinks ==
    NonEmpty(Tables({"link_id", "vehicle_id", "person_id", "mode", "link_enter_time",
                     "distance_travelled"},
                    [link_id : {"l1"}, vehicle_id : {"v1", "v2"}, person_id : {"p"},
                     mode : {"car", "drt"}, link_enter_time : {0}, distance_travelled : {1000}],
                    MaxRows))

FrameTrips0 == CHOOSE df \in FrameTrips : Column(df, "main_mode") = <<"car", "drt">>

FrameLegs0 == CHOOSE df \in FrameLegs : Column(df, "mode") = <<"walk", "drt">>

FrameLinks0 == CHOOSE df \in FrameLinks : Column(df, "mode") = <<"car", "drt">>

\* DRTScenario(code, trips_df=..., legs_df=..., links_df=...) with one of the
\* tables varying, and Comparison(scenario, policy)
InitFrame ==
    /\ \E trips_df \in FrameTrips \cup {None}, legs_df \in FrameLegs \cup {None},
          links_df \in FrameLinks \cup {None} :
          /\ \/ trips_df = FrameTrips0 /\ legs_df = FrameLegs0
             \/ trips_df = FrameTrips0 /\ links_df = FrameLinks0
             \/ legs_df = FrameLegs0 /\ links_df = FrameLinks0
          /\ Holds(add_data(Constructed(None, trips_df, legs_df), "links_df", links_df).self)
    /\ _policy_scenarios = Comparison_policy_scenarios(<<PolicyScenario("p1", ShiftTrips0)>>)
    /\ lastN = -1
    /\ ret = [op |-> "Comparison", err |-> "None"]

\* the calls: a query with its arguments; kind is split_type or stats_for
FrameQueries ==
    [op : {"get_modal_split"}, kind : {"volume", "performance"}, distinguish_modes : {TRUE},
     exclude_modes : {{}, {"car"}}, agg_modes_ruleset : RulesetChoices]
    \cup [op : {"get_modal_split_day", "get_person_km", "get_vehicle_km", "get_n_vehicles_day"},
          kind : {"volume"}, distinguish_modes : {TRUE},
          exclude_modes : {{}, {"car"}}, agg_modes_ruleset : RulesetChoices]
    \cup [op : {"get_travel_time_stats", "get_travel_distance_stats"}, kind : {"trips", "legs"},
          distinguish_modes : BOOLEAN, exclude_modes : {{}},
          agg_modes_ruleset : RulesetChoices]
    \cup [op : {"get_access_egress_distances", "get_drt_intermodal_analysis",
                "get_modal_shift"},
          kind : {"trips"}, distinguish_modes : {TRUE}, exclude_modes : {{}},
          agg_modes_ruleset : RulesetChoices]

\* what the query q returns or raises: [err, val]
Answer(self, q) ==
    CASE q.op = "get_modal_split" ->
            get_modal_split(self, q.kind, q.exclude_modes, q.agg_modes_ruleset)
      [] q.op = "get_modal_split_day" ->
            get_modal_split_day(self, q.kind, Some(60), "start_time", q.exclude_modes,
                                q.agg_modes_ruleset)
      [] q.op = "get_person_km" -> get_person_km(self, q.exclude_modes, q.agg_modes_ruleset)
      [] q.op = "get_vehicle_km" -> get_vehicle_km(self, q.exclude_modes, q.agg_modes_ruleset)
      [] q.op = "get_n_vehicles_day" ->
            get_n_vehicles_day(self, 60, q.exclude_modes, q.agg_modes_ruleset)
      [] q.op = "get_travel_time_stats" ->
            get_travel_time_stats(self, q.kind, q.distinguish_modes, q.agg_modes_ruleset)
      [] q.op = "get_travel_distance_stats" ->
            get_travel_distance_stats(self, q.kind, q.distinguish_modes, q.agg_modes_ruleset,
                                      "routed_distance")
      [] q.op = "get_access_egress_distances" ->
            get_access_egress_distances(self, q.agg_modes_ruleset)
      [] q.op = "get_drt_intermodal_analysis" ->
            [c \in {"err", "val"} |->
                get_drt_intermodal_analysis(self, q.agg_modes_ruleset)[c]]
      [] q.op = "get_modal_shift" ->
            [c \in {"err", "val"} |->
                get_modal_shift(self, _policy_scenarios, None, q.agg_modes_ruleset)[c]]

\* the tables the attributes of self refer to after the query q
ObjectsAfter(self, q) ==
    CASE q.op \in {"get_modal_split", "get_modal_split_day"} /\ q.kind = "volume" ->
            filtered_copy(self, "trips_df", "main_mode", {"main_mode"}, q.exclude_modes,
                          q.agg_modes_ruleset)
      [] q.op = "get_person_km" \/ (q.op = "get_modal_split" /\ q.kind = "performance") ->
            filtered_copy(self, "legs_df", "mode", {"person_id", "routed_distance", "mode"},
                          q.exclude_modes, q.agg_modes_ruleset)
      [] q.op \in {"get_vehicle_km", "get_n_vehicles_day"} ->
            filtered_copy(self, "links_df", "mode", {"vehicle_id", "mode"}, q.exclude_modes,
                          q.agg_modes_ruleset)
      [] q.op = "get_travel_time_stats" ->
            IF q.kind = "trips"
            THEN remapped_copy(self, "trips_df", "main_mode", {"trip_id", "travel_time"},
                               q.agg_modes_ruleset)
            ELSE remapped_copy(self, "legs_df", "mode", {"leg_id", "travel_time"},
                               q.agg_modes_ruleset)
      [] q.op = "get_travel_distance_stats" ->
            IF q.kind = "trips"
            THEN remapped_copy(self, "trips_df", "main_mode", {"routed_distance"},
                               q.agg_modes_ruleset)
            ELSE remapped_copy(self, "legs_df", "mode", {"routed_distance"},
                               q.agg_modes_ruleset)
      [] q.op = "get_access_egress_distances" ->
            remapped_copy(self, "trips_df", "main_mode",
                          {"main_mode", "access_distance", "egress_distance"},
                          q.agg_modes_ruleset)
      [] q.op = "get_drt_intermodal_analysis" -> drt_legs_no_walk_copy(self)
      [] q.op = "get_modal_shift" -> modal_shift_selection(self)

\* ret.again: the call repeats the call before it
KpiQuery ==
    /\ \E q \in FrameQueries :
          /\ ret' = q @@ Answer(Self, q)
                      @@ [again |-> \A c \in DOMAIN q : c \in DOMAIN ret /\ ret[c] = q[c]]
          /\ \E objs \in {ObjectsAfter(Self, q)} :
                /\ _trips_df' = objs.trips_df
                /\ _legs_df' = objs.legs_df
                /\ _links_df' = objs.links_df
          /\ _policy_scenarios' =
                IF q.op # "get_modal_shift" THEN _policy_scenarios
                ELSE [k \in DOMAIN _policy_scenarios |->
                        IF k # 1 THEN _policy_scenarios[k]
                        ELSE [_policy_scenarios[k] EXCEPT
                                !.sc._trips_df =
                                   modal_shift_selection(_policy_scenarios[k].sc).trips_df]]
    /\ UNCHANGED <<_network_df, _operating_zone, _settings, _line_renamer, lastN>>

NextFrame == KpiQuery

SpecFrame == InitFrame /\ [][NextFrame]_vars

\* C28: a KPI query, with or without exclude_modes or an aggregation ruleset,
\* leaves the stored trips, legs and links tables (and those of the policy
\* scenario) as they are, and a query that repeats the call before it returns
\* what that call returned.
C28_QueriesLeaveTablesUnchanged ==
    [][ /\ _trips_df' = _trips_df
        /\ _legs_df' = _legs_df
        /\ _links_df' = _links_df
        /\ _policy_scenarios' = _policy_scenarios
        /\ ret'.again => (ret'.err = ret.err /\ ret'.val = ret.val) ]_vars

\* get_travel_distance_stats with the ruleset 'vsys' has been repeated: it
\* reports the car trips under the label of the ruleset, and the stored trips
\* table has the main_mode 'car'
C28_Witness ==
    /\ ret.op = "get_travel_distance_stats" /\ ret.kind = "trips" /\ ret.distinguish_modes
    /\ ret.agg_modes_ruleset = Ruleset("vsys")
    /\ ret.again
    /\ ret.err = "None"
    /\ \E r \in ret.val : r.main_mode = "MIV"
    /\ \E i \in DOMAIN _trips_df.rows : _trips_df.rows[i].main_mode = "car"

(***************************************************************************)
(* Specification SpecKwargs: add_data calls that pass one or two tables.   *)
(***************************************************************************)
\* the values a caller passes per keyword: tables with rows and the table
\* without rows, which the validation rejects; persons_df is no kind of table
KwargValues(key) ==
    CASE key = "trips_df" -> Tables({"main_mode"}, [main_mode : {"car", "drt"}], MaxRows)
      [] key = "legs_df" -> Tables({"trip_id", "mode"}, [trip_id : {"0"}, mode : {"car", "drt"}], 1)
      [] key = "persons_df" -> NonEmpty(Tables({"person_id"}, [person_id : {"p"}], 1))

\* the keyword arguments of a call: one keyword, or two different ones
Kwargs ==
    { <<<<key, value>>>> :
        key \in {"trips_df", "legs_df", "persons_df"},
        value \in UNION { KwargValues(k) : k \in {"trips_df", "legs_df", "persons_df"} } }
    \cup
    { <<<<k1, v1>>, <<k2, v2>>>> :
        k1 \in {"trips_df", "legs_df", "persons_df"},
        k2 \in {"trips_df", "legs_df", "persons_df"},
        v1 \in UNION { KwargValues(k) : k \in {"trips_df", "legs_df", "persons_df"} },
        v2 \in UNION { KwargValues(k) : k \in {"trips_df", "legs_df", "persons_df"} } }

\* the caller passes under a keyword a value made for it
WellFormed(kwargs) ==
    /\ \A n \in DOMAIN kwargs : kwargs[n][2] \in KwargValues(kwargs[n][1])
    /\ \A n, m \in DOMAIN kwargs : n # m => kwargs[n][1] # kwargs[m][1]

InitKwargs ==
    /\ Holds(NewScenario(None))
    /\ lastN = -1
    /\ ret = [op |-> "__init__", err |-> "None"]
    /\ _policy_scenarios = NoComparison

AddDataKwargs ==
    /\ \E kwargs \in { kw \in Kwargs : WellFormed(kw) } :
          \E r \in {add_data_kwargs(Self, kwargs)} :
             /\ Store(r.self)
             /\ ret' = [op |-> "add_data", kwargs |-> kwargs, err |-> r.err]
    /\ UNCHANGED <<_policy_scenarios, lastN>>

NextKwargs == AddDataKwargs

SpecKwargs == InitKwargs /\ [][NextKwargs]_vars

\* C29: an add_data call that raises leaves every stored table as it was
\* before the call, also when the call passes several tables.
C29_FailedAddDataStoresNothing ==
    [][ (ret'.op = "add_data" /\ ret'.err # "None") =>
           /\ _trips_df' = _trips_df
           /\ _legs_df' = _legs_df
           /\ _links_df' = _links_df
           /\ _network_df' = _network_df ]_vars

(***************************************************************************)
(* C30, on SpecDrt: the contribution of a trip with one DRT leg.           *)
(***************************************************************************)
\* the retained rows of trip t classified order
RowsOfTripWith(t, order) ==
    { k \in RowsOfTrip(t) : ret.drt_adjacent_legs[k].order = order }

\* the trips the analysis is about
DrtTrips == { t \in DrtTripIdsIn : IsDrtTrip(t) }

\* C30: a trip with exactly one DRT leg contributes at most one leg classified
\* before and at most one classified after, a direct leg only when it
\* contributes neither, and no walk leg; when every DRT trip has exactly one
\* DRT leg, the counts of the before rows, of the after rows and of the direct
\* rows are each at most the number of DRT trips.
C30_OneDrtLegContributesAtMostOneEach ==
    IsAnalysis =>
        /\ \A t \in DrtTripIdsIn :
              Cardinality(DrtLegsOf(t)) = 1 =>
                 /\ Cardinality(RowsOfTripWith(t, "before")) <= 1
                 /\ Cardinality(RowsOfTripWith(t, "after")) <= 1
                 /\ Cardinality(RowsOfTripWith(t, "direct")) <= 1
                 /\ RowsOfTripWith(t, "direct") # {} =>
                       RowsOfTripWith(t, "before") \cup RowsOfTripWith(t, "after") = {}
                 /\ \A k \in RowsOfTrip(t) :
                       ret.drt_adjacent_legs[k].mode # _settings.walk_mode
        /\ (\A t \in DrtTrips : Cardinality(DrtLegsOf(t)) = 1) =>
              \A order \in {"before", "after", "direct"} :
                 CountOf(order) <= Cardinality(DrtTrips)

\* the trip of a bus leg, a walk leg, the DRT leg and a bus leg is analysed:
\* one leg before and one after are counted
C30_Witness ==
    /\ IsAnalysis
    /\ "contains_drt" \notin _trips_df.cols
    /\ Column(_legs_df, "mode") = <<"100", "walk", "drt", "100">>
    /\ Column(_legs_df, "trip_id") = <<"1", "1", "1", "1">>
    /\ CountOf("before") = 1
    /\ CountOf("after") = 1
    /\ CountOf("direct") = 0

====
